---------------------------- MODULE Spec2Model ----------------------------
(***************************************************************************)
(* State-machine model of the stock-analysis dashboard frontend.          *)
(*                                                                         *)
(* Each React component is modelled by its useState cells, one action per *)
(* event handler, and one action per continuation of an awaited fetch     *)
(* (resolve / reject).  An effect that React runs after a state change is *)
(* part of the action that makes the change.  Every component has its own *)
(* specification; the variables of the other components stay at their     *)
(* initial values there.                                                   *)
(***************************************************************************)
EXTENDS Integers, Sequences, FiniteSets, Bags, TLC

(***************************************************************************)
(* Bounds                                                                  *)
(***************************************************************************)
\* number of /api/history requests one PriceChart instance may issue
MaxHistoryRequests == 3
\* number of GET /api/search requests of the ETF search box in flight
MaxSearchRequests == 2
\* number of addSearchedEtf calls (GET /api/analysis/basic) in flight
MaxEtfRequests == 1
\* number of /api/search/suggestions requests in flight
MaxSuggestRequests == 2
\* number of /api/market/exchange-rate requests in flight
MaxRateRequests == 1
\* number of /api/analyze requests of App.handleSearch in flight
MaxAnalysisRequests == 2
\* number of requests of the portfolio view and hook in flight
MaxPortfolioRequests == 2
\* number of messages the chat holds
MaxChatMessages == 5

(***************************************************************************)
(* Generic helpers                                                         *)
(***************************************************************************)
Last(s) == s[Len(s)]

SeqToSet(s) == {s[i] : i \in 1..Len(s)}

RemoveAt(s, k) == SubSeq(s, 1, k - 1) \o SubSeq(s, k + 1, Len(s))

RECURSIVE FilterSeq(_, _)
\* Array.prototype.filter restricted to "keep the elements that are in keep"
FilterSeq(s, keep) ==
    IF s = <<>> THEN <<>>
    ELSE IF Head(s) \in keep
         THEN <<Head(s)>> \o FilterSeq(Tail(s), keep)
         ELSE FilterSeq(Tail(s), keep)

VARIABLES
    \* ---- PriceChart ----
    pcTicker,     \* prop ticker
    pcPeriod,     \* state period, as an index into PERIODS
    pcData,       \* state data: the displayed series (sequence of prices)
    pcStats,      \* state stats: [change, changePct]
    pcLoading,    \* state loading
    pcReqs        \* the GET /api/history requests issued so far, in order

pcVars == <<pcTicker, pcPeriod, pcData, pcStats, pcLoading, pcReqs>>

VARIABLES
    \* ---- DiscoveryPanel ----
    dpActiveTab,      \* state activeTab
    dpLoading,        \* state loading
    dpEtfs,           \* state etfs: the explorer list
    dpSelectedEtfs,   \* state selectedEtfs
    dpIsComparing,    \* state isComparing
    dpSearchQuery,    \* state searchQuery (sequence of characters)
    dpSearchResults,  \* state searchResults
    dpIsSearching,    \* state isSearching
    dpSearchReqs,     \* the queries of the GET /api/search requests in flight
    dpEtfReqs,        \* the addSearchedEtf calls in flight, each with the
                      \* selectedEtfs of the render it was started from
    dpFulfilled,      \* the /api/discovery requests of fetchAll whose
                      \* promise is fulfilled while Promise.all is pending
    dpLists           \* states stars, trending, gainers, losers, rebounds,
                      \* smallCaps, moonshots, cryptos, commodities and
                      \* highRiskOpps, by endpoint (<<>> for null and [])

dpVars == <<dpActiveTab, dpLoading, dpEtfs, dpSelectedEtfs, dpIsComparing,
            dpSearchQuery, dpSearchResults, dpIsSearching, dpSearchReqs,
            dpEtfReqs,
           dpFulfilled, dpLists>>

VARIABLES
    \* ---- SearchBar ----
    sbQuery,        \* state query (sequence of characters)
    sbSuggestions,  \* state suggestions
    sbTimer,        \* debounceTimer.current: the trimmed query the armed
                    \* timer will send, or None
    sbReqs          \* GET /api/search/suggestions requests in flight

sbVars == <<sbQuery, sbSuggestions, sbTimer, sbReqs>>

VARIABLES
    \* ---- CurrencyProvider and the values rendered through it ----
    cuCurrency,      \* state currency
    cuExchangeRate,  \* state exchangeRate (1 USD = X EUR)
    cuStorage,       \* localStorage item preferred_currency
    cuRateReqs,      \* number of fetchRate requests in flight
    cuAmount,        \* the USD amount the views render (price, market
                     \* cap, fund volume)
    cuToggledFrom    \* history: the currency the last toggle switched
                     \* away from, None before the first toggle

cuVars == <<cuCurrency, cuExchangeRate, cuStorage, cuRateReqs, cuAmount,
            cuToggledFrom>>

VARIABLES
    \* ---- AddHoldingModal ----
    mdIsOpen,               \* prop isOpen (state of the parent view)
    mdPortfolios,           \* prop portfolios, as the sequence of their ids
    mdInitialTicker,        \* prop initialTicker
    mdInitialPrice,         \* prop initialPrice, Missing when undefined
    mdTicker,               \* state ticker
    mdShares,               \* state shares
    mdBuyPrice,             \* state buyPrice: the number its text denotes,
                            \* Missing for the empty text
    mdSelectedPortfolioId,  \* state selectedPortfolioId, <<>> when empty
    mdOnAdd                 \* the arguments of the latest onAdd call, which
                            \* usePortfolios.addHolding posts to the API

mdVars == <<mdIsOpen, mdPortfolios, mdInitialTicker, mdInitialPrice, mdTicker,
            mdShares, mdBuyPrice, mdSelectedPortfolioId, mdOnAdd>>

VARIABLES
    \* ---- usePortfolios and PortfolioView ----
    pvServer,       \* the portfolios the API stores: id -> holdings
    pvPortfolios,   \* usePortfolios state portfolios
    pvListLoading,  \* usePortfolios state loading
    pvSelected,     \* PortfolioView state selectedPortfolio, None for null
    pvAnalysis,     \* state analysis: the id of the portfolio the analysis
                    \* was computed for, None for null
    pvVerdict,      \* state portfolioVerdict, likewise
    pvLoading,      \* PortfolioView state loading
    pvReqs,         \* the requests in flight, a bag
    pvDeleted,      \* history: the id whose Delete the user confirmed as
                    \* their latest action, else None
    pvCreated       \* number of createPortfolio calls so far

pvVars == <<pvServer, pvPortfolios, pvListLoading, pvSelected, pvAnalysis,
            pvVerdict, pvLoading, pvReqs, pvDeleted, pvCreated>>

VARIABLES
    \* ---- AppContent ----
    apActiveTab,        \* state activeTab
    apAnalysis,         \* state analysis: the ticker of the analysis held,
                        \* None for null
    apLoading,          \* state loading
    apError,            \* state error, None for null
    apTabStorage,       \* localStorage item activeTab, None if absent
    apAnalysisStorage,  \* localStorage item lastAnalysis, None if absent
    apReqs,             \* the tickers of the handleSearch calls in flight
    apLastTicker        \* history: the ticker of the latest handleSearch

apVars == <<apActiveTab, apAnalysis, apLoading, apError, apTabStorage,
            apAnalysisStorage, apReqs, apLastTicker>>

VARIABLES
    observed    \* the component a behaviour of SpecLoading follows, None
                \* in the behaviours of the other specifications

VARIABLES
    \* ---- BrokerChat ----
    bcMessages,     \* state messages
    bcInput,        \* state input (sequence of characters)
    bcLoading,      \* state loading
    bcReqs          \* the message bodies of the POST /api/oracle/chat
                    \* requests in flight

bcVars == <<bcMessages, bcInput, bcLoading, bcReqs>>

vars == <<pcVars, dpVars, sbVars, cuVars, mdVars, pvVars, apVars, bcVars,
          observed>>

\* the variables each component leaves alone
notChat == <<pcVars, dpVars, sbVars, cuVars, mdVars, pvVars, apVars, observed>>

notChart == <<dpVars, sbVars, cuVars, mdVars, pvVars, apVars,
    bcVars, observed>>

notDiscovery == <<pcVars, sbVars, cuVars, mdVars, pvVars, apVars,
    bcVars, observed>>

notSearchBar == <<pcVars, dpVars, cuVars, mdVars, pvVars, apVars,
    bcVars, observed>>

notCurrency == <<pcVars, dpVars, sbVars, pvVars, apVars,
    bcVars, observed>>

notModal == <<pcVars, dpVars, sbVars, cuVars, pvVars, apVars,
    bcVars, observed>>

notApp == <<pcVars, dpVars, sbVars, mdVars, pvVars,
    bcVars, observed>>

notPortfolios == <<pcVars, dpVars, sbVars, cuVars, mdVars, apVars,
    bcVars, observed>>

None == "None"

(***************************************************************************)
(* Text: a string is a sequence of one-character strings                   *)
(***************************************************************************)
RECURSIVE TrimStart(_)
TrimStart(s) ==
    IF s # <<>> /\ Head(s) = " " THEN TrimStart(Tail(s)) ELSE s

RECURSIVE TrimEnd(_)
TrimEnd(s) ==
    IF s # <<>> /\ s[Len(s)] = " " THEN TrimEnd(SubSeq(s, 1, Len(s) - 1)) ELSE s

\* String.prototype.trim
Trim(s) == TrimEnd(TrimStart(s))

LowerCase == <<"a", "b", "m", "s">>

UpperCase == <<"A", "B", "M", "S">>

\* String.prototype.toUpperCase
ToUpperCase(s) ==
    [i \in 1..Len(s) |->
        IF \E k \in 1..Len(LowerCase) : LowerCase[k] = s[i]
        THEN UpperCase[CHOOSE k \in 1..Len(LowerCase) : LowerCase[k] = s[i]]
        ELSE s[i]]

DigitChars == <<"0", "1", "2", "3", "4", "5", "6", "7", "8", "9">>

IsDigit(c) == \E k \in 1..10 : DigitChars[k] = c

DigitValue(c) == (CHOOSE k \in 1..10 : DigitChars[k] = c) - 1

RECURSIVE TakeDigits(_)
\* the longest prefix of s made of digits
TakeDigits(s) ==
    IF s # <<>> /\ IsDigit(Head(s)) THEN <<Head(s)>> \o TakeDigits(Tail(s))
    ELSE <<>>

RECURSIVE DigitsValue(_)
DigitsValue(s) ==
    IF s = <<>> THEN 0
    ELSE 10 * DigitsValue(SubSeq(s, 1, Len(s) - 1)) + DigitValue(s[Len(s)])

(***************************************************************************)
(* Numbers.  A JavaScript number is modelled exactly, as the rational      *)
(* (num / den) * 10^exp in canonical form: den > 0 is coprime to 10 and to *)
(* num, and num is not a multiple of 10 (0 is 0/1 * 10^0).  Rounding is    *)
(* modelled where the code rounds (toFixed, Intl.NumberFormat).            *)
(***************************************************************************)
Abs(n) == IF n < 0 THEN -n ELSE n

RECURSIVE GCD(_, _)
GCD(a, b) == IF b = 0 THEN a ELSE GCD(b, a % b)

RECURSIVE Pow10(_)
Pow10(k) == IF k = 0 THEN 1 ELSE 10 * Pow10(k - 1)

RECURSIVE DenCoprimeTo10(_, _, _)
\* move the factors 2 and 5 of the denominator into the exponent
DenCoprimeTo10(n, d, e) ==
    IF d % 2 = 0 THEN DenCoprimeTo10(n * 5, d \div 2, e - 1)
    ELSE IF d % 5 = 0 THEN DenCoprimeTo10(n * 2, d \div 5, e - 1)
    ELSE [num |-> n, den |-> d, exp |-> e]

RECURSIVE StripTens(_, _, _)
\* move the factors 10 of the numerator into the exponent
StripTens(n, d, e) ==
    IF n % 10 = 0 THEN StripTens(n \div 10, d, e + 1)
    ELSE [num |-> n, den |-> d, exp |-> e]

\* the canonical form of (n / d) * 10^e, for d > 0
Norm(n, d, e) ==
    IF n = 0 THEN [num |-> 0, den |-> 1, exp |-> 0]
    ELSE LET g == GCD(Abs(n), d)
             a == DenCoprimeTo10(n \div g, d \div g, e)
             h == GCD(Abs(a.num), a.den)
         IN  StripTens(a.num \div h, a.den \div h, a.exp)

Zero == Norm(0, 1, 0)

\* the decimal literal m * 10^e
Dec(m, e) == Norm(m, 1, e)

\* the values that are no finite number have a zero denominator
NaN == [num |-> 0, den |-> 0, exp |-> 0]

Infinity == [num |-> 1, den |-> 0, exp |-> 0]

\* null or undefined where a number is expected
Missing == [num |-> 0, den |-> 0, exp |-> 1]

IsNumber(x) == x.den > 0

Mul(a, b) == Norm(a.num * b.num, a.den * b.den, a.exp + b.exp)

\* JavaScript a / b
Div(a, b) ==
    IF b.num = 0
    THEN IF a.num = 0 THEN NaN ELSE Infinity
    ELSE IF b.num > 0
         THEN Norm(a.num * b.den, a.den * b.num, a.exp - b.exp)
         ELSE Norm(-(a.num * b.den), a.den * (-b.num), a.exp - b.exp)

MathAbs(a) == [a EXCEPT !.num = Abs(a.num)]

RECURSIVE ScaledGe(_, _, _)
\* n * 10^t >= d, for n, d > 0 and t >= 0
ScaledGe(n, d, t) ==
    IF n >= d THEN TRUE
    ELSE IF t = 0 THEN FALSE
    ELSE ScaledGe(n * 10, d, t - 1)

\* a >= 10^k
GePow10(a, k) ==
    IF a.num <= 0 THEN FALSE
    ELSE LET t == a.exp - k IN
         IF t >= 0 THEN ScaledGe(a.num, a.den, t)
         ELSE ~ScaledGe(a.den, a.num + 1, -t)

\* the integer nearest to a / b, halves away from zero, for b > 0
RoundDiv(a, b) ==
    IF a >= 0 THEN (2 * a + b) \div (2 * b)
    ELSE -((2 * (-a) + b) \div (2 * b))

\* a rounded to the given number of fraction digits (toFixed, NumberFormat)
RoundTo(a, digits) ==
    LET t == a.exp + digits IN
    IF t >= 0 /\ a.den = 1
    THEN a
    ELSE IF t >= 0
    THEN Norm(RoundDiv(a.num * Pow10(t), a.den), 1, -digits)
    ELSE Norm(RoundDiv(a.num, a.den * Pow10(-t)), 1, -digits)

\* a / 10^k
DivPow10(a, k) == Norm(a.num, a.den, a.exp - k)

(***************************************************************************)
(* PriceChart                                                              *)
(***************************************************************************)
PERIODS == <<
    [id |-> "1d",  label |-> "1D",  interval |-> "5m"],
    [id |-> "5d",  label |-> "5D",  interval |-> "15m"],
    [id |-> "1mo", label |-> "1M",  interval |-> "1d"],
    [id |-> "1y",  label |-> "1Y",  interval |-> "1wk"],
    [id |-> "5y",  label |-> "5Y",  interval |-> "1mo"],
    [id |-> "max", label |-> "MAX", interval |-> "1mo"] >>

DefaultPeriod == 3

Tickers == {"AAPL", "MSFT"}

PeriodIndex(id) == CHOOSE k \in 1..Len(PERIODS) : PERIODS[k].id = id

\* The series the backend answers GET /api/history/{t}?period={id} with.
\* One series per (ticker, period); they differ pairwise, and there are
\* series with no point, with one point and with a first price of 0.
History(t, id) ==
    LET b == IF t = "AAPL" THEN 100 ELSE 200
        k == PeriodIndex(id)
    IN  CASE k = 1 -> IF t = "AAPL" THEN <<b>> ELSE <<>>
          [] k = 2 -> <<b, b + 10>>
          [] k = 3 -> <<b, b + 5, b + 20>>
          [] k = 4 -> <<b, b - 50>>
          [] k = 5 -> IF t = "AAPL" THEN <<0, b>> ELSE <<b, b, b>>
          [] OTHER -> <<b, b + 30, b + 50, b + 100>>

\* JavaScript (change / first) * 100; the prices of History make the
\* quotient exact.  A zero divisor yields NaN or an infinity.
PercentOf(change, first) ==
    IF first = 0
    THEN IF change = 0 THEN [is |-> "NaN", pct |-> 0]
         ELSE IF change > 0 THEN [is |-> "Infinity", pct |-> 0]
         ELSE [is |-> "-Infinity", pct |-> 0]
    ELSE [is |-> "finite", pct |-> (change * 100) \div first]

\* the stats the effect computes from a series of length > 1
StatsOf(hist) ==
    LET first == hist[1]
        last == hist[Len(hist)]
        change == last - first
    IN  [change |-> change, changePct |-> PercentOf(change, first)]

HistoryRequest(t, p) ==
    [ticker |-> t, period |-> PERIODS[p].id, interval |-> PERIODS[p].interval,
     status |-> "pending"]

\* body of the effect up to the await: setLoading(true) and the fetch
fetchHistory(t, p) ==
    /\ pcLoading' = TRUE
    /\ pcReqs' = Append(pcReqs, HistoryRequest(t, p))

\* SelectPeriod with the fetch built from the period of the previous render
SelectPeriod_StalePeriod(p) ==
    /\ Len(pcReqs) < MaxHistoryRequests
    /\ IF p = pcPeriod
       THEN UNCHANGED pcVars
       ELSE /\ pcPeriod' = p
            /\ fetchHistory(pcTicker, pcPeriod)
            /\ UNCHANGED <<pcTicker, pcData, pcStats>>
    /\ UNCHANGED notChart

\* onClick of a period button: setPeriod(p).  Setting the period object
\* that is already the state is no state change, so no effect runs.
SelectPeriod(p) ==
    /\ Len(pcReqs) < MaxHistoryRequests
    /\ IF p = pcPeriod
       THEN UNCHANGED pcVars
       ELSE /\ pcPeriod' = p
            /\ fetchHistory(pcTicker, p)
            /\ UNCHANGED <<pcTicker, pcData, pcStats>>
    /\ UNCHANGED notChart

\* the parent re-renders the chart with another ticker prop
ChangeTicker(t) ==
    /\ Len(pcReqs) < MaxHistoryRequests
    /\ t # pcTicker
    /\ pcTicker' = t
    /\ fetchHistory(t, pcPeriod)
    /\ UNCHANGED <<pcPeriod, pcData, pcStats>>
    /\ UNCHANGED notChart

\* continuation of fetchHistory after response.json() resolved
HistoryResolve(i) ==
    /\ i \in 1..Len(pcReqs)
    /\ pcReqs[i].status = "pending"
    /\ LET histData == History(pcReqs[i].ticker, pcReqs[i].period) IN
        /\ pcData' = histData
        /\ pcStats' = IF Len(histData) > 1 THEN StatsOf(histData) ELSE pcStats
    /\ pcLoading' = FALSE
    /\ pcReqs' = [pcReqs EXCEPT ![i].status = "ok"]
    /\ UNCHANGED <<pcTicker, pcPeriod>>
    /\ UNCHANGED notChart

\* continuation of fetchHistory when fetch or response.json() rejected
HistoryReject(i) ==
    /\ i \in 1..Len(pcReqs)
    /\ pcReqs[i].status = "pending"
    /\ pcLoading' = FALSE
    /\ pcReqs' = [pcReqs EXCEPT ![i].status = "failed"]
    /\ UNCHANGED <<pcTicker, pcPeriod, pcData, pcStats>>
    /\ UNCHANGED notChart

InitChart ==
    /\ pcTicker = "AAPL"
    /\ pcPeriod = DefaultPeriod
    /\ pcData = <<>>
    /\ pcStats = [change |-> 0, changePct |-> [is |-> "finite", pct |-> 0]]
    /\ pcLoading = TRUE
    /\ pcReqs = <<HistoryRequest("AAPL", DefaultPeriod)>>

NextChart ==
    \/ \E p \in 1..Len(PERIODS) : SelectPeriod(p)
    \/ \E t \in Tickers : ChangeTicker(t)
    \/ \E i \in 1..MaxHistoryRequests : HistoryResolve(i)
    \/ \E i \in 1..MaxHistoryRequests : HistoryReject(i)

(***************************************************************************)
(* DiscoveryPanel: ETF explorer, ETF search and multi-compare selection    *)
(***************************************************************************)
DiscoveryTabs == {"overview", "ai", "movers", "etf", "alternative"}

\* the tab buttons that get clicked; every tab but "etf" hides the ETF UI
ClickedTabs == {"overview", "etf"}

\* what GET /api/discovery/etfs answers with (tickers of the cards)
ExplorerEtfs == <<"E1", "E2", "E3">>

\* the texts typed into the ETF search box
SearchTexts == {<<>>, <<"m">>, <<"m", "s">>}

\* what GET /api/search?q= answers with; E1 is also an explorer card
SearchBackend(query) == <<"X1", "E1">>

\* An entry of selectedEtfs is identified by its ticker.
SelectedTickers(sel) == {sel[k] : k \in 1..Len(sel)}

\* the panel renders its tabs once the skeleton is gone
PanelShown == ~dpLoading

EtfTabShown == PanelShown /\ dpActiveTab = "etf"

\* CompareDisabled asking for a full selection
CompareDisabled_NeedsThree == Len(dpSelectedEtfs) < 3 /\ ~dpIsComparing

\* disabled= of the compare button
CompareDisabled == Len(dpSelectedEtfs) < 2 /\ ~dpIsComparing

\* the endpoints fetchAll requests, in the order of its Promise.all
Endpoints == <<"stars", "trending", "gainers", "losers", "rebounds",
               "small-caps", "moonshots", "cryptos", "commodities",
               "high-risk-opportunities", "etfs">>

\* the endpoints whose list is held in dpLists
ListEndpoints == SeqToSet(Endpoints) \ {"etfs"}

\* the parsed body of GET /api/discovery/<endpoint>
Response(endpoint) ==
    IF endpoint = "etfs" THEN ExplorerEtfs ELSE <<endpoint>>

\* one request of fetchAll is answered and parsed while others are pending
EndpointFulfil(e) ==
    /\ dpLoading
    /\ e \notin dpFulfilled
    /\ dpFulfilled \cup {e} # SeqToSet(Endpoints)
    /\ dpFulfilled' = dpFulfilled \cup {e}
    /\ UNCHANGED <<dpActiveTab, dpLoading, dpEtfs, dpSelectedEtfs,
                   dpIsComparing, dpSearchQuery, dpSearchResults,
                   dpIsSearching, dpSearchReqs, dpEtfReqs, dpLists>>
    /\ UNCHANGED notDiscovery

\* fetchAll keeping the lists of the requests that were fulfilled when one
\* request rejects
FetchAllReject_Partial(e) ==
    /\ dpLoading
    /\ e \notin dpFulfilled
    /\ dpLists' = [x \in ListEndpoints |->
                      IF x \in dpFulfilled THEN Response(x) ELSE dpLists[x]]
    /\ dpEtfs' = IF "etfs" \in dpFulfilled THEN Response("etfs") ELSE dpEtfs
    /\ dpLoading' = FALSE
    /\ dpFulfilled' = {}
    /\ UNCHANGED <<dpActiveTab, dpSelectedEtfs, dpIsComparing, dpSearchQuery,
                   dpSearchResults, dpIsSearching, dpSearchReqs, dpEtfReqs>>
    /\ UNCHANGED notDiscovery

\* the last pending request of fetchAll is fulfilled: Promise.all is
\* fulfilled and fetchAll continues with the 11 setters, finally
\* setLoading(false)
FetchAllResolve(e) ==
    /\ dpLoading
    /\ e \notin dpFulfilled
    /\ dpFulfilled \cup {e} = SeqToSet(Endpoints)
    /\ dpFulfilled' = dpFulfilled \cup {e}
    /\ dpLists' = [x \in ListEndpoints |-> Response(x)]
    /\ dpEtfs' = Response("etfs")
    /\ dpLoading' = FALSE
    /\ UNCHANGED <<dpActiveTab, dpSelectedEtfs, dpIsComparing, dpSearchQuery,
                   dpSearchResults, dpIsSearching, dpSearchReqs, dpEtfReqs>>
    /\ UNCHANGED notDiscovery

\* a pending request of fetchAll rejects (the fetch fails or the body is no
\* JSON): Promise.all rejects, the results of the other requests are
\* dropped, fetchAll continues in catch, finally setLoading(false)
FetchAllReject(e) ==
    /\ dpLoading
    /\ e \notin dpFulfilled
    /\ dpLoading' = FALSE
    /\ dpFulfilled' = {}
    /\ UNCHANGED <<dpActiveTab, dpEtfs, dpSelectedEtfs, dpIsComparing,
                   dpSearchQuery, dpSearchResults, dpIsSearching,
                   dpSearchReqs, dpEtfReqs, dpLists>>
    /\ UNCHANGED notDiscovery

\* onClick of a tab button
SetActiveTab(tab) ==
    /\ PanelShown
    /\ dpActiveTab' = tab
    /\ UNCHANGED <<dpLoading, dpEtfs, dpSelectedEtfs, dpIsComparing,
                   dpSearchQuery, dpSearchResults, dpIsSearching,
                   dpSearchReqs, dpEtfReqs>>
    /\ UNCHANGED <<dpFulfilled, dpLists>>
    /\ UNCHANGED notDiscovery

\* onClick of "Auswahl leeren"
ClearSelection ==
    /\ EtfTabShown
    /\ Len(dpSelectedEtfs) > 0
    /\ dpSelectedEtfs' = <<>>
    /\ UNCHANGED <<dpActiveTab, dpLoading, dpEtfs, dpIsComparing,
                   dpSearchQuery, dpSearchResults, dpIsSearching,
                   dpSearchReqs, dpEtfReqs>>
    /\ UNCHANGED <<dpFulfilled, dpLists>>
    /\ UNCHANGED notDiscovery

\* onClick of the compare button
ToggleCompare ==
    /\ EtfTabShown
    /\ ~CompareDisabled
    /\ dpIsComparing' = ~dpIsComparing
    /\ UNCHANGED <<dpActiveTab, dpLoading, dpEtfs, dpSelectedEtfs,
                   dpSearchQuery, dpSearchResults, dpIsSearching,
                   dpSearchReqs, dpEtfReqs>>
    /\ UNCHANGED <<dpFulfilled, dpLists>>
    /\ UNCHANGED notDiscovery

\* EtfCardClick admitting a selection while 3 entries are held
EtfCardClick_OffByOne(k) ==
    /\ EtfTabShown
    /\ ~dpIsComparing
    /\ k \in 1..Len(dpEtfs)
    /\ LET etf == dpEtfs[k]
           isSelected == etf \in SelectedTickers(dpSelectedEtfs)
       IN  dpSelectedEtfs' =
             IF isSelected
             THEN SelectSeq(dpSelectedEtfs, LAMBDA x : x # etf)
             ELSE IF Len(dpSelectedEtfs) <= 3
                  THEN Append(dpSelectedEtfs, etf)
                  ELSE dpSelectedEtfs
    /\ UNCHANGED <<dpActiveTab, dpLoading, dpEtfs, dpIsComparing,
                   dpSearchQuery, dpSearchResults, dpIsSearching,
                   dpSearchReqs, dpEtfReqs>>
    /\ UNCHANGED <<dpFulfilled, dpLists>>
    /\ UNCHANGED notDiscovery

\* onClick of the k-th ETF explorer card
EtfCardClick(k) ==
    /\ EtfTabShown
    /\ ~dpIsComparing
    /\ k \in 1..Len(dpEtfs)
    /\ LET etf == dpEtfs[k]
           isSelected == etf \in SelectedTickers(dpSelectedEtfs)
       IN  dpSelectedEtfs' =
             IF isSelected
             THEN SelectSeq(dpSelectedEtfs, LAMBDA x : x # etf)
             ELSE IF Len(dpSelectedEtfs) < 3
                  THEN Append(dpSelectedEtfs, etf)
                  ELSE dpSelectedEtfs
    /\ UNCHANGED <<dpActiveTab, dpLoading, dpEtfs, dpIsComparing,
                   dpSearchQuery, dpSearchResults, dpIsSearching,
                   dpSearchReqs, dpEtfReqs>>
    /\ UNCHANGED <<dpFulfilled, dpLists>>
    /\ UNCHANGED notDiscovery

\* handleSearch sending every non-empty input to the backend
handleSearch_MinOne(query) ==
    /\ EtfTabShown
    /\ ~dpIsComparing
    /\ query # dpSearchQuery
    /\ dpSearchQuery' = query
    /\ IF Len(query) < 1
       THEN /\ dpSearchResults' = <<>>
            /\ UNCHANGED <<dpIsSearching, dpSearchReqs>>
       ELSE /\ Len(dpSearchReqs) < MaxSearchRequests
            /\ dpIsSearching' = TRUE
            /\ dpSearchReqs' = Append(dpSearchReqs, query)
            /\ UNCHANGED dpSearchResults
    /\ UNCHANGED <<dpActiveTab, dpLoading, dpEtfs, dpSelectedEtfs,
                   dpIsComparing, dpEtfReqs>>
    /\ UNCHANGED <<dpFulfilled, dpLists>>
    /\ UNCHANGED notDiscovery

\* onChange of the ETF search box: handleSearch(query) up to the await
handleSearch(query) ==
    /\ EtfTabShown
    /\ ~dpIsComparing
    /\ query # dpSearchQuery
    /\ dpSearchQuery' = query
    /\ IF Len(query) < 2
       THEN /\ dpSearchResults' = <<>>
            /\ UNCHANGED <<dpIsSearching, dpSearchReqs>>
       ELSE /\ Len(dpSearchReqs) < MaxSearchRequests
            /\ dpIsSearching' = TRUE
            /\ dpSearchReqs' = Append(dpSearchReqs, query)
            /\ UNCHANGED dpSearchResults
    /\ UNCHANGED <<dpActiveTab, dpLoading, dpEtfs, dpSelectedEtfs,
                   dpIsComparing, dpEtfReqs>>
    /\ UNCHANGED <<dpFulfilled, dpLists>>
    /\ UNCHANGED notDiscovery

\* continuation of handleSearch after res.json() resolved
SearchResolve(i) ==
    /\ i \in 1..Len(dpSearchReqs)
    /\ dpSearchResults' = SearchBackend(dpSearchReqs[i])
    /\ dpIsSearching' = FALSE
    /\ dpSearchReqs' = RemoveAt(dpSearchReqs, i)
    /\ UNCHANGED <<dpActiveTab, dpLoading, dpEtfs, dpSelectedEtfs,
                   dpIsComparing, dpSearchQuery, dpEtfReqs>>
    /\ UNCHANGED <<dpFulfilled, dpLists>>
    /\ UNCHANGED notDiscovery

\* continuation of handleSearch when the request rejected
SearchReject(i) ==
    /\ i \in 1..Len(dpSearchReqs)
    /\ dpIsSearching' = FALSE
    /\ dpSearchReqs' = RemoveAt(dpSearchReqs, i)
    /\ UNCHANGED <<dpActiveTab, dpLoading, dpEtfs, dpSelectedEtfs,
                   dpIsComparing, dpSearchQuery, dpSearchResults, dpEtfReqs>>
    /\ UNCHANGED <<dpFulfilled, dpLists>>
    /\ UNCHANGED notDiscovery

\* onClick of the k-th row of the search result overlay
SearchResultClick(k) ==
    /\ EtfTabShown
    /\ ~dpIsComparing
    /\ Len(dpSearchQuery) >= 2
    /\ ~dpIsSearching
    /\ k \in 1..Len(dpSearchResults)
    /\ LET res == dpSearchResults[k]
           isSelected == res \in SelectedTickers(dpSelectedEtfs)
       IN  IF ~isSelected
           THEN \* addSearchedEtf(res) up to the await
                /\ Len(dpEtfReqs) < MaxEtfRequests
                /\ dpEtfReqs' = Append(dpEtfReqs,
                       [res |-> res, selectedEtfs |-> dpSelectedEtfs])
                /\ UNCHANGED <<dpSearchQuery, dpSearchResults>>
           ELSE /\ dpSearchQuery' = <<>>
                /\ dpSearchResults' = <<>>
                /\ UNCHANGED dpEtfReqs
    /\ UNCHANGED <<dpActiveTab, dpLoading, dpEtfs, dpSelectedEtfs,
                   dpIsComparing, dpIsSearching, dpSearchReqs>>
    /\ UNCHANGED <<dpFulfilled, dpLists>>
    /\ UNCHANGED notDiscovery

\* the tail of addSearchedEtf: add the entry to the selectedEtfs of the
\* render the call was started from, then reset the search box
addSearchedEtfFinish(i) ==
    LET selectedEtfs == dpEtfReqs[i].selectedEtfs IN
    /\ dpSelectedEtfs' =
         IF Len(selectedEtfs) < 3
         THEN Append(selectedEtfs, dpEtfReqs[i].res)
         ELSE dpSelectedEtfs
    /\ dpSearchQuery' = <<>>
    /\ dpSearchResults' = <<>>
    /\ dpEtfReqs' = RemoveAt(dpEtfReqs, i)

\* continuation of addSearchedEtf after response.json() resolved:
\* the entry is built from the detail response
EtfDetailsResolve(i) ==
    /\ i \in 1..Len(dpEtfReqs)
    /\ addSearchedEtfFinish(i)
    /\ UNCHANGED <<dpActiveTab, dpLoading, dpEtfs, dpIsComparing,
                   dpIsSearching, dpSearchReqs>>
    /\ UNCHANGED <<dpFulfilled, dpLists>>
    /\ UNCHANGED notDiscovery

\* continuation of addSearchedEtf in the catch block: the fallback entry
\* is built from the search result
EtfDetailsReject(i) ==
    /\ i \in 1..Len(dpEtfReqs)
    /\ addSearchedEtfFinish(i)
    /\ UNCHANGED <<dpActiveTab, dpLoading, dpEtfs, dpIsComparing,
                   dpIsSearching, dpSearchReqs>>
    /\ UNCHANGED <<dpFulfilled, dpLists>>
    /\ UNCHANGED notDiscovery

InitDiscovery ==
    /\ dpActiveTab = "overview"
    /\ dpLoading = TRUE
    /\ dpEtfs = <<>>
    /\ dpSelectedEtfs = <<>>
    /\ dpIsComparing = FALSE
    /\ dpSearchQuery = <<>>
    /\ dpSearchResults = <<>>
    /\ dpIsSearching = FALSE
    /\ dpSearchReqs = <<>>
    /\ dpEtfReqs = <<>>
    /\ dpFulfilled = {}
    /\ dpLists = [x \in ListEndpoints |-> <<>>]

NextDiscovery ==
    \/ \E e \in SeqToSet(Endpoints) : EndpointFulfil(e)
    \/ \E e \in SeqToSet(Endpoints) : FetchAllResolve(e)
    \/ \E e \in SeqToSet(Endpoints) : FetchAllReject(e)
    \/ \E tab \in ClickedTabs : SetActiveTab(tab)
    \/ ClearSelection
    \/ ToggleCompare
    \/ \E k \in 1..Len(ExplorerEtfs) : EtfCardClick(k)
    \/ \E query \in SearchTexts : handleSearch(query)
    \/ \E i \in 1..MaxSearchRequests : SearchResolve(i)
    \/ \E i \in 1..MaxSearchRequests : SearchReject(i)
    \/ \E k \in 1..2 : SearchResultClick(k)
    \/ \E i \in 1..MaxEtfRequests : EtfDetailsResolve(i)
    \/ \E i \in 1..MaxEtfRequests : EtfDetailsReject(i)

(***************************************************************************)
(* SearchBar: suggestion fetches and the debounce timer                    *)
(***************************************************************************)
\* the texts typed into the search box
QueryTexts == {<<>>, <<"a">>, <<"a", "b">>, <<"a", " ">>, <<" ", " ">>,
               <<"a", "b", "c">>}

\* a request without q asks for the default categories
DefaultSuggestions == [q |-> None]

\* what /api/search/suggestions?q= answers with: Matches, here empty for
\* the query "abc"
Matches(q) == IF q = <<"a", "b", "c">> THEN <<>> ELSE <<"ABT">>

\* the effect on [query]: arm the debounce timer (clearing an armed one)
\* for a trimmed query longer than 1, fetch the defaults for an empty one
QueryEffect(query) ==
    LET trimmedQuery == Trim(query) IN
    IF Len(trimmedQuery) > 1
    THEN /\ sbTimer' = trimmedQuery
         /\ UNCHANGED sbReqs
    ELSE IF Len(trimmedQuery) = 0
         THEN /\ Len(sbReqs) < MaxSuggestRequests
              /\ sbReqs' = Append(sbReqs, DefaultSuggestions)
              /\ UNCHANGED sbTimer
         ELSE UNCHANGED <<sbTimer, sbReqs>>

\* onChange of the input with a fetch in place of the debounce timer
SetQuery_NoDebounce(text) ==
    /\ text # sbQuery
    /\ sbQuery' = text
    /\ Len(sbReqs) < MaxSuggestRequests
    /\ sbReqs' = IF Len(Trim(text)) > 1
                 THEN Append(sbReqs, [q |-> Trim(text)])
                 ELSE sbReqs
    /\ UNCHANGED <<sbTimer, sbSuggestions>>
    /\ UNCHANGED notSearchBar

\* onChange of the input: setQuery(text), then the effect on [query]
SetQuery(text) ==
    /\ text # sbQuery
    /\ sbQuery' = text
    /\ QueryEffect(text)
    /\ UNCHANGED sbSuggestions
    /\ UNCHANGED notSearchBar

\* the 300 ms timer fires: the request carries the query it was armed with
DebounceFire ==
    /\ sbTimer # None
    /\ Len(sbReqs) < MaxSuggestRequests
    /\ sbReqs' = Append(sbReqs, [q |-> sbTimer])
    /\ sbTimer' = None
    /\ UNCHANGED <<sbQuery, sbSuggestions>>
    /\ UNCHANGED notSearchBar

\* .then of a suggestion request
SuggestResolve(i) ==
    /\ i \in 1..Len(sbReqs)
    /\ LET q == sbReqs[i].q IN
       sbSuggestions' =
         IF q = None THEN "defaults"
         ELSE IF Len(Matches(q)) > 0 THEN [TopMatches |-> Matches(q)]
         ELSE "empty"
    /\ sbReqs' = RemoveAt(sbReqs, i)
    /\ UNCHANGED <<sbQuery, sbTimer>>
    /\ UNCHANGED notSearchBar

\* .catch of a suggestion request
SuggestReject(i) ==
    /\ i \in 1..Len(sbReqs)
    /\ sbReqs' = RemoveAt(sbReqs, i)
    /\ UNCHANGED <<sbQuery, sbSuggestions, sbTimer>>
    /\ UNCHANGED notSearchBar

\* after mount: the initial fetch of the categories and the query effect
\* on the empty query have each sent a request
InitSearchBar ==
    /\ sbQuery = <<>>
    /\ sbSuggestions = "empty"
    /\ sbTimer = None
    /\ sbReqs = <<DefaultSuggestions, DefaultSuggestions>>

NextSearchBar ==
    \/ \E text \in QueryTexts : SetQuery(text)
    \/ DebounceFire
    \/ \E i \in 1..MaxSuggestRequests : SuggestResolve(i)
    \/ \E i \in 1..MaxSuggestRequests : SuggestReject(i)

(***************************************************************************)
(* CurrencyProvider, and the formatters of AnalysisResult / ETFComparison  *)
(***************************************************************************)
Currencies == {"USD", "EUR"}

\* the exchange rate the provider starts with
InitialRate == Dec(92, -2)

\* what localStorage may hold for preferred_currency at startup: nothing,
\* a value the provider stored, or a string written by something else
StoredCurrencies == {None, "USD", "EUR", "GBP"}

\* data.rate of the responses of GET /api/market/exchange-rate;
\* Missing is a response without a rate
RateResponses == {Dec(85, -2), Dec(11, -1), Zero, Missing}

\* the USD amounts handed to the formatters
Amounts == {Missing, Zero, Dec(1234, -2), Dec(1, 2), Dec(999999, 0),
            Dec(5, 6), Dec(25, 8), Dec(25, 11), Dec(-3, 6)}

\* JavaScript !x for a number or a missing value
Falsy(x) == x = Missing \/ x = NaN \/ (IsNumber(x) /\ x.num = 0)

\* convert(amount, from) in a render with the given currency and rate
\* convert with the branch for EUR amounts multiplying like the other one
convertAs_Multiplies(currency, amount, from) ==
    IF Falsy(amount) THEN Zero
    ELSE IF currency = from THEN amount
    ELSE IF from = "USD" /\ currency = "EUR"
         THEN Mul(amount, cuExchangeRate)
    ELSE IF from = "EUR" /\ currency = "USD"
         THEN Mul(amount, cuExchangeRate)
    ELSE amount

convertAs(currency, amount, from) ==
    IF Falsy(amount) THEN Zero
    ELSE IF currency = from THEN amount
    ELSE IF from = "USD" /\ currency = "EUR"
         THEN Mul(amount, cuExchangeRate)
    ELSE IF from = "EUR" /\ currency = "USD"
         THEN Div(amount, cuExchangeRate)
    ELSE amount

\* convert as the current render sees it
convert(amount, from) == convertAs(cuCurrency, amount, from)

\* what a formatter renders: a number, a magnitude suffix and a currency
Shown(value, unit, symbol) == [value |-> value, unit |-> unit, symbol |-> symbol]

\* formatPrice(amount, forceCurrency): Intl.NumberFormat with 2 digits
formatPrice(amount, forceCurrency) ==
    LET activeCurrency == IF forceCurrency # None THEN forceCurrency
                          ELSE cuCurrency
        value == convert(amount, "USD")
    IN  Shown(RoundTo(value, 2), "", activeCurrency)

\* the text "N/A"
NotAvailable == Shown(Missing, "N/A", "")

\* AnalysisResult.formatBigNumber(value, formatPrice)
formatBigNumber(value) ==
    IF value = Missing THEN NotAvailable
    ELSE IF GePow10(MathAbs(value), 12)
    THEN Shown(RoundTo(DivPow10(value, 12), 2), "T", "")
    ELSE IF GePow10(MathAbs(value), 9)
    THEN Shown(RoundTo(DivPow10(value, 9), 2), "B", "")
    ELSE IF GePow10(MathAbs(value), 6)
    THEN Shown(RoundTo(DivPow10(value, 6), 2), "M", "")
    ELSE formatPrice(value, None)

\* ETFComparison.formatCurrency(value); toLocaleString keeps 3 digits
formatCurrency(value) ==
    IF GePow10(value, 12)
    THEN Shown(RoundTo(DivPow10(value, 12), 2), "T", "$")
    ELSE IF GePow10(value, 9)
    THEN Shown(RoundTo(DivPow10(value, 9), 2), "B", "$")
    ELSE IF GePow10(value, 6)
    THEN Shown(RoundTo(DivPow10(value, 6), 2), "M", "$")
    ELSE Shown(RoundTo(value, 3), "", "$")

\* the "Fondsvolumen" tile of ETFComparison
FundVolumeTile(total_assets) ==
    IF Falsy(total_assets) THEN NotAvailable ELSE formatCurrency(total_assets)

(***************************************************************************)
(* AddHoldingModal                                                         *)
(***************************************************************************)
\* parseFloat(s) for texts without an exponent part: leading blanks and a
\* sign are skipped, the longest numeric prefix is read, NaN without digits
ParseFloat(s) ==
    LET t == TrimStart(s)
        signed == t # <<>> /\ (Head(t) = "-" \/ Head(t) = "+")
        u == IF signed THEN Tail(t) ELSE t
        ip == TakeDigits(u)
        r == SubSeq(u, Len(ip) + 1, Len(u))
        fp == IF r # <<>> /\ Head(r) = "." THEN TakeDigits(Tail(r)) ELSE <<>>
        m == DigitsValue(ip \o fp)
    IN  IF ip = <<>> /\ fp = <<>> THEN NaN
        ELSE Dec(IF signed /\ Head(t) = "-" THEN -m ELSE m, -Len(fp))

\* a valid floating-point number without an exponent part: an optional
\* "-", then digits, or "." and digits, or both
IsValidFloat(s) ==
    LET u == IF s # <<>> /\ Head(s) = "-" THEN Tail(s) ELSE s
        ip == TakeDigits(u)
        r == SubSeq(u, Len(ip) + 1, Len(u))
    IN  \/ ip # <<>> /\ r = <<>>
        \/ /\ r # <<>>
           /\ Head(r) = "."
           /\ Tail(r) # <<>>
           /\ TakeDigits(Tail(r)) = Tail(r)

\* e.target.value of an <input type="number">: the typed text if it is a
\* valid number, else the empty text
NumberInputValue(raw) == IF IsValidFloat(raw) THEN raw ELSE <<>>

\* the portfolios the parent may pass
PortfolioLists == {<<>>, <<"p1">>, <<"p1", "p2">>}

\* data.ticker of AnalysisResult, newHolding.ticker of PortfolioView
InitialTickers == {<<>>, <<"A", "B">>}

\* price_data.current_price, or undefined
InitialPrices == {Missing, Dec(1234, -2)}

\* what the user types into the ticker field
TickerTexts == {<<>>, <<" ", " ">>, <<"a", "b">>, <<" ", "m">>}

\* what the user types into the share-count field
ShareTexts == {<<>>, <<"1">>, <<"2", ".", "5">>, <<"-", "3">>, <<"a", "b">>}

\* what the user types into the price field
PriceTexts == {<<>>, <<"9", ".", "5">>, <<"a">>}

\* no onAdd call so far
NoCall == [portfolioId |-> "", ticker |-> <<>>, shares |-> Missing,
           buyPrice |-> Missing]

\* the effect on [initialTicker, initialPrice, portfolios,
\* selectedPortfolioId, currency], by the state it writes
EffectTicker(ticker, initialTicker) ==
    IF initialTicker # <<>> THEN initialTicker ELSE ticker

\* setBuyPrice(convert(initialPrice, "USD").toFixed(2)) or setBuyPrice("")
EffectBuyPrice(currency, initialPrice) ==
    IF ~Falsy(initialPrice)
    THEN RoundTo(convertAs(currency, initialPrice, "USD"), 2)
    ELSE Missing

EffectSelectedPortfolioId(selected, portfolios) ==
    IF Len(portfolios) > 0 /\ selected = "" THEN portfolios[1] ELSE selected

\* the parent's button: setIsModalOpen(true) / setShowAddHoldingModal(true)
OpenModal ==
    /\ ~mdIsOpen
    /\ mdIsOpen' = TRUE
    /\ UNCHANGED <<mdPortfolios, mdInitialTicker, mdInitialPrice, mdTicker,
                   mdShares, mdBuyPrice, mdSelectedPortfolioId, mdOnAdd>>
    /\ UNCHANGED notModal

\* "Abbrechen": onClose
onClose ==
    /\ mdIsOpen
    /\ mdIsOpen' = FALSE
    /\ UNCHANGED <<mdPortfolios, mdInitialTicker, mdInitialPrice, mdTicker,
                   mdShares, mdBuyPrice, mdSelectedPortfolioId, mdOnAdd>>
    /\ UNCHANGED notModal

\* the parent renders the modal with new props; the effect runs
PropsChange(initialTicker, initialPrice, portfolios) ==
    /\ mdInitialTicker' = initialTicker
    /\ mdInitialPrice' = initialPrice
    /\ mdPortfolios' = portfolios
    /\ mdTicker' = EffectTicker(mdTicker, initialTicker)
    /\ mdBuyPrice' = EffectBuyPrice(cuCurrency, initialPrice)
    /\ mdSelectedPortfolioId' =
          EffectSelectedPortfolioId(mdSelectedPortfolioId, portfolios)
    /\ UNCHANGED <<mdIsOpen, mdShares, mdOnAdd>>
    /\ UNCHANGED notModal

\* onChange of the ticker field
SetTicker(text) ==
    /\ mdIsOpen
    /\ mdTicker' = ToUpperCase(text)
    /\ UNCHANGED <<mdIsOpen, mdPortfolios, mdInitialTicker, mdInitialPrice,
                   mdShares, mdBuyPrice, mdSelectedPortfolioId, mdOnAdd>>
    /\ UNCHANGED notModal

\* onChange of the share-count field
SetShares(raw) ==
    /\ mdIsOpen
    /\ mdShares' = NumberInputValue(raw)
    /\ UNCHANGED <<mdIsOpen, mdPortfolios, mdInitialTicker, mdInitialPrice,
                   mdTicker, mdBuyPrice, mdSelectedPortfolioId, mdOnAdd>>
    /\ UNCHANGED notModal

\* onChange of the price field
SetBuyPrice(raw) ==
    /\ mdIsOpen
    /\ mdBuyPrice' = IF NumberInputValue(raw) = <<>> THEN Missing
                     ELSE ParseFloat(NumberInputValue(raw))
    /\ UNCHANGED <<mdIsOpen, mdPortfolios, mdInitialTicker, mdInitialPrice,
                   mdTicker, mdShares, mdSelectedPortfolioId, mdOnAdd>>
    /\ UNCHANGED notModal

\* onChange of the portfolio select; the effect depends on the selection
SetSelectedPortfolioId(id) ==
    /\ mdIsOpen
    /\ id \in SeqToSet(mdPortfolios)
    /\ id # mdSelectedPortfolioId
    /\ mdSelectedPortfolioId' = id
    /\ mdTicker' = EffectTicker(mdTicker, mdInitialTicker)
    /\ mdBuyPrice' = EffectBuyPrice(cuCurrency, mdInitialPrice)
    /\ UNCHANGED <<mdIsOpen, mdPortfolios, mdInitialTicker, mdInitialPrice,
                   mdShares, mdOnAdd>>
    /\ UNCHANGED notModal

\* "Hinzufuegen": handleAdd.  The button is disabled, and handleAdd
\* returns at once, when ticker, shares or selectedPortfolioId is empty.
handleAdd ==
    /\ mdIsOpen
    /\ ~(mdTicker = <<>> \/ mdShares = <<>> \/ mdSelectedPortfolioId = "")
    /\ LET parsed == mdBuyPrice
           priceInUSD == IF parsed # Missing /\ cuCurrency = "EUR"
                         THEN Div(parsed, cuExchangeRate)
                         ELSE parsed
       IN  mdOnAdd' = [portfolioId |-> mdSelectedPortfolioId,
                       ticker |-> ToUpperCase(mdTicker),
                       shares |-> ParseFloat(mdShares),
                       buyPrice |-> priceInUSD]
    /\ mdIsOpen' = FALSE
    /\ UNCHANGED <<mdPortfolios, mdInitialTicker, mdInitialPrice, mdTicker,
                   mdShares, mdBuyPrice, mdSelectedPortfolioId>>
    /\ UNCHANGED notModal

\* mounted closed by PortfolioView before the portfolios are loaded
InitModal ==
    /\ mdIsOpen = FALSE
    /\ mdPortfolios = <<>>
    /\ mdInitialTicker = <<>>
    /\ mdInitialPrice = Missing
    /\ mdTicker = <<>>
    /\ mdShares = <<"1">>
    /\ mdBuyPrice = Missing
    /\ mdSelectedPortfolioId = ""
    /\ mdOnAdd = NoCall

NextModal ==
    \/ OpenModal
    \/ onClose
    \/ \E initialTicker \in InitialTickers, initialPrice \in InitialPrices,
          portfolios \in PortfolioLists :
          PropsChange(initialTicker, initialPrice, portfolios)
    \/ \E text \in TickerTexts : SetTicker(text)
    \/ \E raw \in ShareTexts : SetShares(raw)
    \/ \E raw \in PriceTexts : SetBuyPrice(raw)
    \/ \E id \in {"p1", "p2"} : SetSelectedPortfolioId(id)
    \/ handleAdd

(***************************************************************************)
(* CurrencyProvider: actions                                               *)
(***************************************************************************)
\* onClick of a currency button: setCurrency(c), then the effect that
\* stores the preference and the effect of AddHoldingModal, which depends
\* on the currency
setCurrency(c) ==
    /\ cuCurrency' = c
    /\ cuStorage' = c
    /\ cuToggledFrom' = IF c # cuCurrency THEN cuCurrency ELSE cuToggledFrom
    /\ mdTicker' = IF c # cuCurrency
                   THEN EffectTicker(mdTicker, mdInitialTicker) ELSE mdTicker
    /\ mdBuyPrice' = IF c # cuCurrency
                     THEN EffectBuyPrice(c, mdInitialPrice) ELSE mdBuyPrice
    /\ UNCHANGED <<cuExchangeRate, cuRateReqs, cuAmount>>
    /\ UNCHANGED <<mdIsOpen, mdPortfolios, mdInitialTicker, mdInitialPrice,
                   mdShares, mdSelectedPortfolioId, mdOnAdd>>
    /\ UNCHANGED notCurrency

\* the hourly interval calls fetchRate
RateTick ==
    /\ cuRateReqs < MaxRateRequests
    /\ cuRateReqs' = cuRateReqs + 1
    /\ UNCHANGED <<cuCurrency, cuExchangeRate, cuStorage, cuAmount,
                   cuToggledFrom>>
    /\ UNCHANGED mdVars
    /\ UNCHANGED notCurrency

\* fetchRate storing data.rate without the test `if (data.rate)`
RateResolve_Unchecked(rate) ==
    /\ cuRateReqs > 0
    /\ cuRateReqs' = cuRateReqs - 1
    /\ cuExchangeRate' = rate
    /\ UNCHANGED <<cuCurrency, cuStorage, cuAmount, cuToggledFrom>>
    /\ UNCHANGED mdVars
    /\ UNCHANGED notCurrency

\* continuation of fetchRate after res.json() resolved with data.rate
RateResolve(rate) ==
    /\ cuRateReqs > 0
    /\ cuRateReqs' = cuRateReqs - 1
    /\ cuExchangeRate' = IF ~Falsy(rate) THEN rate ELSE cuExchangeRate
    /\ UNCHANGED <<cuCurrency, cuStorage, cuAmount, cuToggledFrom>>
    /\ UNCHANGED mdVars
    /\ UNCHANGED notCurrency

\* catch block of fetchRate
RateReject ==
    /\ cuRateReqs > 0
    /\ cuRateReqs' = cuRateReqs - 1
    /\ UNCHANGED <<cuCurrency, cuExchangeRate, cuStorage, cuAmount,
                   cuToggledFrom>>
    /\ UNCHANGED mdVars
    /\ UNCHANGED notCurrency

\* App.handleSearch stored an analysis: the views now render its USD
\* amounts (current price, market cap, total assets)
AnalysisLoaded(amount) ==
    /\ cuAmount' = amount
    /\ UNCHANGED <<cuCurrency, cuExchangeRate, cuStorage, cuRateReqs,
                   cuToggledFrom>>
    /\ UNCHANGED mdVars
    /\ UNCHANGED notCurrency

\* after mount: the currency comes from localStorage (USD if absent), the
\* preference is stored back, and the first fetchRate is in flight
InitCurrency ==
    /\ \E stored \in StoredCurrencies :
          cuCurrency = IF stored = None THEN "USD" ELSE stored
    /\ cuStorage = cuCurrency
    /\ cuExchangeRate = InitialRate
    /\ cuRateReqs = 1
    /\ cuAmount = Missing
    /\ cuToggledFrom = None

NextCurrency ==
    \/ \E c \in Currencies : setCurrency(c)
    \/ RateTick
    \/ \E rate \in RateResponses : RateResolve(rate)
    \/ RateReject
    \/ \E amount \in Amounts : AnalysisLoaded(amount)

(***************************************************************************)
(* usePortfolios and PortfolioView                                         *)
(***************************************************************************)
\* the ids of the portfolios of the API, in the order GET /api/portfolios
\* lists them: the first exists at startup, the others are given to the
\* portfolios the user creates
PortfolioIds == <<"p1", "p2">>

\* the ticker a holding is added for
HoldingTicker == "AAPL"

\* a request in flight; body is the array of a GET /api/portfolios response
Req(kind, id, body) == [kind |-> kind, id |-> id, body |-> body]

\* the body of GET /api/portfolios for the stored portfolios
Snapshot(server) ==
    LET all == [i \in 1..Len(PortfolioIds) |->
                   [id |-> PortfolioIds[i],
                    holdings |-> server[PortfolioIds[i]].holdings]]
        Present(p) == server[p.id].present
    IN  SelectSeq(all, Present)

\* portfolios.find((p) => p.id === selected) exists
Found(selected, portfolios) ==
    \E i \in 1..Len(portfolios) : portfolios[i].id = selected

\* the effect on [selectedPortfolio, portfolios] takes its first branch:
\* the selected portfolio is in the list and has holdings
Analyzes(selected, portfolios) ==
    /\ selected # None
    /\ \E i \in 1..Len(portfolios) :
          portfolios[i].id = selected /\ portfolios[i].holdings # {}

\* the effect on [selectedPortfolio, portfolios], run after a render with
\* the given selection and list: analyzePortfolio and fetchPortfolioVerdict
\* start their requests, or analysis and portfolioVerdict are cleared
RunEffect(selected, portfolios, reqs) ==
    IF Analyzes(selected, portfolios)
    THEN /\ BagCardinality(reqs) + 2 <= MaxPortfolioRequests
         /\ pvReqs' = reqs (+) SetToBag({Req("analyze", selected, <<>>),
                                        Req("verdict", selected, <<>>)})
         /\ pvLoading' = TRUE
         /\ UNCHANGED <<pvAnalysis, pvVerdict>>
    ELSE /\ pvReqs' = reqs
         /\ pvAnalysis' = None
         /\ pvVerdict' = None
         /\ UNCHANGED pvLoading

InFlight(kind) == {r \in BagToSet(pvReqs) : r.kind = kind}

Settle(r) == pvReqs (-) SetToBag({r})

\* the API handles a GET /api/portfolios: the response carries the
\* portfolios stored at that moment
ListHandle(r) ==
    /\ r \in InFlight("list")
    /\ pvReqs' = Settle(r) (+) SetToBag({Req("listResponse", "", Snapshot(pvServer))})
    /\ UNCHANGED <<pvServer, pvPortfolios, pvListLoading, pvSelected,
                   pvAnalysis, pvVerdict, pvLoading, pvDeleted>>
    /\ UNCHANGED pvCreated
    /\ UNCHANGED notPortfolios

\* fetchPortfolios after response.json(): setPortfolios(data), finally
\* setLoading(false); the effect of the view sees the new list
ListResolve(r) ==
    /\ r \in InFlight("listResponse")
    /\ pvPortfolios' = r.body
    /\ pvListLoading' = FALSE
    /\ RunEffect(pvSelected, r.body, Settle(r))
    /\ UNCHANGED <<pvServer, pvSelected, pvDeleted>>
    /\ UNCHANGED pvCreated
    /\ UNCHANGED notPortfolios

\* fetchPortfolios: catch, finally setLoading(false)
ListReject(r) ==
    /\ r \in InFlight("list")
    /\ pvReqs' = Settle(r)
    /\ pvListLoading' = FALSE
    /\ UNCHANGED <<pvServer, pvPortfolios, pvSelected, pvAnalysis, pvVerdict,
                   pvLoading, pvDeleted>>
    /\ UNCHANGED pvCreated
    /\ UNCHANGED notPortfolios

\* onClick of a portfolio button: setSelectedPortfolio(portfolio.id)
SetSelectedPortfolio(id) ==
    /\ Found(id, pvPortfolios)
    /\ id # pvSelected
    /\ pvSelected' = id
    /\ RunEffect(id, pvPortfolios, pvReqs)
    /\ pvDeleted' = None
    /\ UNCHANGED <<pvServer, pvPortfolios, pvListLoading>>
    /\ UNCHANGED pvCreated
    /\ UNCHANGED notPortfolios

\* "Refresh": analyzePortfolio(currentPortfolio)
Refresh ==
    /\ Analyzes(pvSelected, pvPortfolios)
    /\ ~pvLoading
    /\ BagCardinality(pvReqs) < MaxPortfolioRequests
    /\ pvLoading' = TRUE
    /\ pvReqs' = pvReqs (+) SetToBag({Req("analyze", pvSelected, <<>>)})
    /\ pvDeleted' = None
    /\ UNCHANGED <<pvServer, pvPortfolios, pvListLoading, pvSelected,
                   pvAnalysis, pvVerdict>>
    /\ UNCHANGED pvCreated
    /\ UNCHANGED notPortfolios

\* analyzePortfolio after a response with response.ok
AnalyzeResolve(r) ==
    /\ r \in InFlight("analyze")
    /\ pvAnalysis' = r.id
    /\ pvLoading' = FALSE
    /\ pvReqs' = Settle(r)
    /\ UNCHANGED <<pvServer, pvPortfolios, pvListLoading, pvSelected,
                   pvVerdict, pvDeleted>>
    /\ UNCHANGED pvCreated
    /\ UNCHANGED notPortfolios

\* analyzePortfolio after a response without response.ok or a failure
AnalyzeFail(r) ==
    /\ r \in InFlight("analyze")
    /\ pvLoading' = FALSE
    /\ pvReqs' = Settle(r)
    /\ UNCHANGED <<pvServer, pvPortfolios, pvListLoading, pvSelected,
                   pvAnalysis, pvVerdict, pvDeleted>>
    /\ UNCHANGED pvCreated
    /\ UNCHANGED notPortfolios

\* fetchPortfolioVerdict: setPortfolioVerdict(data.verdict)
VerdictResolve(r) ==
    /\ r \in InFlight("verdict")
    /\ pvVerdict' = r.id
    /\ pvReqs' = Settle(r)
    /\ UNCHANGED <<pvServer, pvPortfolios, pvListLoading, pvSelected,
                   pvAnalysis, pvLoading, pvDeleted>>
    /\ UNCHANGED pvCreated
    /\ UNCHANGED notPortfolios

\* fetchPortfolioVerdict: catch
VerdictReject(r) ==
    /\ r \in InFlight("verdict")
    /\ pvReqs' = Settle(r)
    /\ UNCHANGED <<pvServer, pvPortfolios, pvListLoading, pvSelected,
                   pvAnalysis, pvVerdict, pvLoading, pvDeleted>>
    /\ UNCHANGED pvCreated
    /\ UNCHANGED notPortfolios

\* "Delete" with the confirm dialog accepted:
\* onDeletePortfolio(currentPortfolio.id); setSelectedPortfolio(null)
DeletePortfolio ==
    /\ Found(pvSelected, pvPortfolios)
    /\ BagCardinality(pvReqs) < MaxPortfolioRequests
    /\ pvSelected' = None
    /\ RunEffect(None, pvPortfolios,
                 pvReqs (+) SetToBag({Req("delete", pvSelected, <<>>)}))
    /\ pvDeleted' = pvSelected
    /\ UNCHANGED <<pvServer, pvPortfolios, pvListLoading>>
    /\ UNCHANGED pvCreated
    /\ UNCHANGED notPortfolios

\* the API deletes the portfolio and deletePortfolio continues after the
\* fetch: setPortfolios(prev => prev.filter(p => p.id !== id))
DeleteResolve(r) ==
    /\ r \in InFlight("delete")
    /\ pvServer' = [pvServer EXCEPT ![r.id] = [present |-> FALSE,
                                                holdings |-> {}]]
    /\ LET Kept(p) == p.id # r.id
           kept == SelectSeq(pvPortfolios, Kept)
       IN  /\ pvPortfolios' = kept
           /\ RunEffect(pvSelected, kept, Settle(r))
    /\ UNCHANGED <<pvListLoading, pvSelected, pvDeleted>>
    /\ UNCHANGED pvCreated
    /\ UNCHANGED notPortfolios

\* the DELETE fetch fails: deletePortfolio throws before setPortfolios
DeleteReject(r) ==
    /\ r \in InFlight("delete")
    /\ pvReqs' = Settle(r)
    /\ UNCHANGED <<pvServer, pvPortfolios, pvListLoading, pvSelected,
                   pvAnalysis, pvVerdict, pvLoading, pvDeleted>>
    /\ UNCHANGED pvCreated
    /\ UNCHANGED notPortfolios

\* onAddHolding(portfolioId, holding): addHolding posts the holding
AddHolding(id) ==
    /\ Found(id, pvPortfolios)
    /\ BagCardinality(pvReqs) < MaxPortfolioRequests
    /\ pvReqs' = pvReqs (+) SetToBag({Req("addHolding", id, <<>>)})
    /\ pvDeleted' = None
    /\ UNCHANGED <<pvServer, pvPortfolios, pvListLoading, pvSelected,
                   pvAnalysis, pvVerdict, pvLoading>>
    /\ UNCHANGED pvCreated
    /\ UNCHANGED notPortfolios

\* the API stores the holding and addHolding continues after the fetch:
\* await fetchPortfolios()
AddHoldingResolve(r) ==
    /\ r \in InFlight("addHolding")
    /\ pvServer' = IF pvServer[r.id].present
                   THEN [pvServer EXCEPT ![r.id].holdings = @ \cup {HoldingTicker}]
                   ELSE pvServer
    /\ pvReqs' = Settle(r) (+) SetToBag({Req("list", "", <<>>)})
    /\ UNCHANGED <<pvPortfolios, pvListLoading, pvSelected, pvAnalysis,
                   pvVerdict, pvLoading, pvDeleted>>
    /\ UNCHANGED pvCreated
    /\ UNCHANGED notPortfolios

\* the POST fetch fails: addHolding throws before fetchPortfolios
AddHoldingReject(r) ==
    /\ r \in InFlight("addHolding")
    /\ pvReqs' = Settle(r)
    /\ UNCHANGED <<pvServer, pvPortfolios, pvListLoading, pvSelected,
                   pvAnalysis, pvVerdict, pvLoading, pvDeleted>>
    /\ UNCHANGED pvCreated
    /\ UNCHANGED notPortfolios

\* the API answers the DELETE with a status that is not OK and keeps the
\* portfolio; deletePortfolio does not look at the status
DeleteNotOk(r) ==
    /\ r \in InFlight("delete")
    /\ LET Kept(p) == p.id # r.id
           kept == SelectSeq(pvPortfolios, Kept)
       IN  /\ pvPortfolios' = kept
           /\ RunEffect(pvSelected, kept, Settle(r))
    /\ UNCHANGED <<pvServer, pvListLoading, pvSelected, pvDeleted>>
    /\ UNCHANGED pvCreated
    /\ UNCHANGED notPortfolios

\* the ids the API gives to the portfolios it creates
NewId(k) == PortfolioIds[1 + k]

\* the JSON body of an error response: an object without id and holdings
ErrorBody == [id |-> "", holdings |-> {}]

\* handleCreatePortfolio with a name that is not blank:
\* onCreatePortfolio(newPortfolioName.trim())
CreatePortfolio ==
    /\ pvCreated < Len(PortfolioIds) - 1
    /\ BagCardinality(pvReqs) < MaxPortfolioRequests
    /\ pvCreated' = pvCreated + 1
    /\ pvReqs' = pvReqs (+) SetToBag({Req("create", NewId(pvCreated + 1), <<>>)})
    /\ pvDeleted' = None
    /\ UNCHANGED <<pvServer, pvPortfolios, pvListLoading, pvSelected,
                   pvAnalysis, pvVerdict, pvLoading>>
    /\ UNCHANGED notPortfolios

\* the API handles the POST: it stores the new portfolio and answers
\* with it
CreateHandle(r) ==
    /\ r \in InFlight("create")
    /\ pvServer' = [pvServer EXCEPT ![r.id] = [present |-> TRUE,
                                                holdings |-> {}]]
    /\ pvReqs' = Settle(r) (+) SetToBag({Req("createResponse", r.id, <<>>)})
    /\ UNCHANGED <<pvPortfolios, pvListLoading, pvSelected, pvAnalysis,
                   pvVerdict, pvLoading, pvDeleted, pvCreated>>
    /\ UNCHANGED notPortfolios

\* createPortfolio continues after response.json():
\* setPortfolios(prev => [...prev, newPortfolio])
CreateResolve(r) ==
    /\ r \in InFlight("createResponse")
    /\ LET list == Append(pvPortfolios, [id |-> r.id, holdings |-> {}])
       IN  /\ pvPortfolios' = list
           /\ RunEffect(pvSelected, list, Settle(r))
    /\ UNCHANGED <<pvServer, pvListLoading, pvSelected, pvDeleted, pvCreated>>
    /\ UNCHANGED notPortfolios

\* the API answers the POST with a status that is not OK and a JSON body;
\* createPortfolio does not look at the status and appends the body
CreateNotOk(r) ==
    /\ r \in InFlight("create")
    /\ LET list == Append(pvPortfolios, ErrorBody)
       IN  /\ pvPortfolios' = list
           /\ RunEffect(pvSelected, list, Settle(r))
    /\ UNCHANGED <<pvServer, pvListLoading, pvSelected, pvDeleted, pvCreated>>
    /\ UNCHANGED notPortfolios

\* the POST fetch fails or its body is no JSON: createPortfolio throws
\* before setPortfolios
CreateReject(r) ==
    /\ r \in InFlight("create") \cup InFlight("createResponse")
    /\ pvReqs' = Settle(r)
    /\ UNCHANGED <<pvServer, pvPortfolios, pvListLoading, pvSelected,
                   pvAnalysis, pvVerdict, pvLoading, pvDeleted, pvCreated>>
    /\ UNCHANGED notPortfolios

\* "Remove" in a row of the analysed holdings:
\* onRemoveHolding(currentPortfolio.id, holding.ticker)
RemoveHolding ==
    /\ Found(pvSelected, pvPortfolios)
    /\ pvAnalysis # None
    /\ BagCardinality(pvReqs) < MaxPortfolioRequests
    /\ pvReqs' = pvReqs (+) SetToBag({Req("removeHolding", pvSelected, <<>>)})
    /\ pvDeleted' = None
    /\ UNCHANGED <<pvServer, pvPortfolios, pvListLoading, pvSelected,
                   pvAnalysis, pvVerdict, pvLoading, pvCreated>>
    /\ UNCHANGED notPortfolios

\* the API removes the holding and removeHolding continues after the
\* fetch: await fetchPortfolios()
RemoveHoldingResolve(r) ==
    /\ r \in InFlight("removeHolding")
    /\ pvServer' = [pvServer EXCEPT ![r.id].holdings = @ \ {HoldingTicker}]
    /\ pvReqs' = Settle(r) (+) SetToBag({Req("list", "", <<>>)})
    /\ UNCHANGED <<pvPortfolios, pvListLoading, pvSelected, pvAnalysis,
                   pvVerdict, pvLoading, pvDeleted, pvCreated>>
    /\ UNCHANGED notPortfolios

\* the DELETE fetch of the holding fails: removeHolding throws before
\* fetchPortfolios
RemoveHoldingReject(r) ==
    /\ r \in InFlight("removeHolding")
    /\ pvReqs' = Settle(r)
    /\ UNCHANGED <<pvServer, pvPortfolios, pvListLoading, pvSelected,
                   pvAnalysis, pvVerdict, pvLoading, pvDeleted, pvCreated>>
    /\ UNCHANGED notPortfolios

\* after mount: nothing loaded or selected, the first fetchPortfolios is in
\* flight; the API stores one portfolio, which has a holding
InitPortfolios ==
    /\ pvServer = [id \in SeqToSet(PortfolioIds) |->
                      IF id = PortfolioIds[1]
                      THEN [present |-> TRUE, holdings |-> {HoldingTicker}]
                      ELSE [present |-> FALSE, holdings |-> {}]]
    /\ pvPortfolios = <<>>
    /\ pvListLoading = TRUE
    /\ pvSelected = None
    /\ pvAnalysis = None
    /\ pvVerdict = None
    /\ pvLoading = FALSE
    /\ pvReqs = SetToBag({Req("list", "", <<>>)})
    /\ pvDeleted = None
    /\ pvCreated = 0

NextPortfolios ==
    \/ \E r \in BagToSet(pvReqs) : ListHandle(r)
    \/ \E r \in BagToSet(pvReqs) : ListResolve(r)
    \/ \E r \in BagToSet(pvReqs) : ListReject(r)
    \/ \E id \in SeqToSet(PortfolioIds) : SetSelectedPortfolio(id)
    \/ Refresh
    \/ \E r \in BagToSet(pvReqs) : AnalyzeResolve(r)
    \/ \E r \in BagToSet(pvReqs) : AnalyzeFail(r)
    \/ \E r \in BagToSet(pvReqs) : VerdictResolve(r)
    \/ \E r \in BagToSet(pvReqs) : VerdictReject(r)
    \/ DeletePortfolio
    \/ \E r \in BagToSet(pvReqs) : DeleteResolve(r)
    \/ \E r \in BagToSet(pvReqs) : DeleteReject(r)
    \/ \E id \in SeqToSet(PortfolioIds) : AddHolding(id)
    \/ \E r \in BagToSet(pvReqs) : AddHoldingResolve(r)
    \/ \E r \in BagToSet(pvReqs) : AddHoldingReject(r)
    \/ \E r \in BagToSet(pvReqs) : DeleteNotOk(r)
    \/ CreatePortfolio
    \/ \E r \in BagToSet(pvReqs) : CreateHandle(r)
    \/ \E r \in BagToSet(pvReqs) : CreateResolve(r)
    \/ \E r \in BagToSet(pvReqs) : CreateNotOk(r)
    \/ \E r \in BagToSet(pvReqs) : CreateReject(r)
    \/ RemoveHolding
    \/ \E r \in BagToSet(pvReqs) : RemoveHoldingResolve(r)
    \/ \E r \in BagToSet(pvReqs) : RemoveHoldingReject(r)

(***************************************************************************)
(* AppContent: tabs, handleSearch and the persisted preferences            *)
(***************************************************************************)
Tabs == {"analyze", "discovery", "portfolio"}

\* the bodies of the responses of GET /api/analyze/<ticker> whose status
\* is not OK: JSON with or without a detail, text that is no JSON, and no
\* body at all
ErrorBodies ==
    {[kind |-> "json", detail |-> "Ticker not found"],
     [kind |-> "json", detail |-> None],
     [kind |-> "text", detail |-> None],
     [kind |-> "null", detail |-> None]}

\* the message handleSearch throws for a response that is not OK.
\* response.json() reads the body before it fails to parse it, so the
\* response.text() of the inner catch rejects with a TypeError unless the
\* response has no body.
ErrorMessage(body) ==
    IF body.kind = "json"
    THEN IF body.detail # None THEN body.detail ELSE "Failed to fetch analysis"
    ELSE IF body.kind = "null"
    THEN "Server Error: <status> <statusText>"
    ELSE "TypeError: body stream already read"

\* the value activeTab starts with: localStorage.getItem("activeTab") || "analyze"
StartupTab(stored) == IF stored = None THEN "analyze" ELSE stored

\* the value currency starts with:
\* localStorage.getItem("preferred_currency") || "USD"
StartupCurrency(stored) == IF stored = None THEN "USD" ELSE stored

\* onClick of a tab of the navigation without the effect that stores it
NavClick_NoStore(tab) ==
    /\ apActiveTab' = tab
    /\ UNCHANGED <<apAnalysis, apLoading, apError, apTabStorage,
                   apAnalysisStorage, apReqs, apLastTicker>>
    /\ UNCHANGED cuVars
    /\ UNCHANGED notApp

\* onClick of a tab of the navigation: setActiveTab(tab.id), then the
\* effect that stores the tab
NavClick(tab) ==
    /\ apActiveTab' = tab
    /\ apTabStorage' = tab
    /\ UNCHANGED <<apAnalysis, apLoading, apError, apAnalysisStorage, apReqs,
                   apLastTicker>>
    /\ UNCHANGED cuVars
    /\ UNCHANGED notApp

\* handleSearch(ticker) up to its fetch
AppHandleSearch(ticker) ==
    /\ Len(apReqs) < MaxAnalysisRequests
    /\ apLoading' = TRUE
    /\ apError' = None
    /\ apAnalysis' = None
    /\ apActiveTab' = "analyze"
    /\ apTabStorage' = "analyze"
    /\ apReqs' = Append(apReqs, ticker)
    /\ apLastTicker' = ticker
    /\ UNCHANGED apAnalysisStorage
    /\ UNCHANGED cuVars
    /\ UNCHANGED notApp

\* handleSearch applying a response only if no later call was made
AppSearchOk_LatestOnly(i) ==
    /\ i \in 1..Len(apReqs)
    /\ apAnalysis' = IF i = Len(apReqs) THEN apReqs[i] ELSE apAnalysis
    /\ apAnalysisStorage' =
          IF i = Len(apReqs) THEN apReqs[i] ELSE apAnalysisStorage
    /\ apLoading' = FALSE
    /\ apReqs' = RemoveAt(apReqs, i)
    /\ UNCHANGED <<apActiveTab, apError, apTabStorage, apLastTicker>>
    /\ UNCHANGED cuVars
    /\ UNCHANGED notApp

\* handleSearch after an OK response: setAnalysis(data), then the effect
\* that stores lastAnalysis, finally setLoading(false)
AppSearchOk(i) ==
    /\ i \in 1..Len(apReqs)
    /\ apAnalysis' = apReqs[i]
    /\ apAnalysisStorage' = apReqs[i]
    /\ apLoading' = FALSE
    /\ apReqs' = RemoveAt(apReqs, i)
    /\ UNCHANGED <<apActiveTab, apError, apTabStorage, apLastTicker>>
    /\ UNCHANGED cuVars
    /\ UNCHANGED notApp

\* handleSearch after a response that is not OK: setError(err.message),
\* finally setLoading(false)
AppSearchNotOk(i, body) ==
    /\ i \in 1..Len(apReqs)
    /\ apError' = ErrorMessage(body)
    /\ apLoading' = FALSE
    /\ apReqs' = RemoveAt(apReqs, i)
    /\ UNCHANGED <<apActiveTab, apAnalysis, apTabStorage, apAnalysisStorage,
                   apLastTicker>>
    /\ UNCHANGED cuVars
    /\ UNCHANGED notApp

\* handleSearch with setLoading(false) at the end of the try block in
\* place of the finally block
AppSearchReject_KeepsLoading(i) ==
    /\ i \in 1..Len(apReqs)
    /\ apError' = "Failed to fetch"
    /\ apReqs' = RemoveAt(apReqs, i)
    /\ UNCHANGED <<apActiveTab, apAnalysis, apLoading, apTabStorage,
                   apAnalysisStorage, apLastTicker>>
    /\ UNCHANGED cuVars
    /\ UNCHANGED notApp

\* handleSearch after a failed fetch: setError(err.message), finally
\* setLoading(false)
AppSearchReject(i) ==
    /\ i \in 1..Len(apReqs)
    /\ apError' = "Failed to fetch"
    /\ apLoading' = FALSE
    /\ apReqs' = RemoveAt(apReqs, i)
    /\ UNCHANGED <<apActiveTab, apAnalysis, apTabStorage, apAnalysisStorage,
                   apLastTicker>>
    /\ UNCHANGED cuVars
    /\ UNCHANGED notApp

\* the page is closed and opened again: the responses in flight are lost,
\* activeTab, analysis and currency start from localStorage and the
\* effects store them; the other components are mounted anew
Reload ==
    /\ apActiveTab' = StartupTab(apTabStorage)
    /\ apTabStorage' = StartupTab(apTabStorage)
    /\ apAnalysis' = apAnalysisStorage
    /\ apLoading' = FALSE
    /\ apError' = None
    /\ apReqs' = <<>>
    /\ apLastTicker' = None
    /\ UNCHANGED apAnalysisStorage
    /\ cuCurrency' = StartupCurrency(cuStorage)
    /\ cuStorage' = StartupCurrency(cuStorage)
    /\ cuExchangeRate' = InitialRate
    /\ cuRateReqs' = 1
    /\ cuAmount' = Missing
    /\ cuToggledFrom' = None
    /\ UNCHANGED notApp

\* the first start: nothing is stored
InitApp ==
    /\ apActiveTab = StartupTab(None)
    /\ apTabStorage = StartupTab(None)
    /\ apAnalysis = None
    /\ apLoading = FALSE
    /\ apError = None
    /\ apAnalysisStorage = None
    /\ apReqs = <<>>
    /\ apLastTicker = None

NextApp ==
    \/ \E tab \in Tabs : NavClick(tab)
    \/ \E ticker \in Tickers : AppHandleSearch(ticker)
    \/ \E i \in 1..MaxAnalysisRequests : AppSearchOk(i)
    \/ \E i \in 1..MaxAnalysisRequests, body \in ErrorBodies :
          AppSearchNotOk(i, body)
    \/ \E i \in 1..MaxAnalysisRequests : AppSearchReject(i)
    \/ \E c \in Currencies : setCurrency(c)
    \/ Reload

(***************************************************************************)
(* BrokerChat                                                              *)
(***************************************************************************)
\* what the user types into the chat input
ChatTexts == {<<>>, <<" ">>, <<"h", "i">>, <<" ", "y", " ">>}

\* the message of the effect on [initialMessage]; App passes no
\* initialMessage
Greeting == [role |-> "oracle", content |-> <<"H", "a", "l", "l", "o">>]

\* data.response of POST /api/oracle/chat
Reply == [role |-> "oracle", content |-> <<"o", "k">>]

\* the message of the catch block
ConnectionError == [role |-> "oracle", content |-> <<"E", "n", "t">>]

\* onChange of the chat input
SetInput(text) ==
    /\ text # bcInput
    /\ bcInput' = text
    /\ UNCHANGED <<bcMessages, bcLoading, bcReqs>>
    /\ UNCHANGED notChat

\* handleSend without the test of loading
handleSend_IgnoresLoading ==
    IF Trim(bcInput) = <<>>
    THEN UNCHANGED vars
    ELSE /\ Len(bcMessages) < MaxChatMessages
         /\ bcInput' = <<>>
         /\ bcMessages' = Append(bcMessages,
                                 [role |-> "user", content |-> Trim(bcInput)])
         /\ bcLoading' = TRUE
         /\ bcReqs' = Append(bcReqs, bcInput)
         /\ UNCHANGED notChat

\* Enter in the input or a click on the send button: handleSend up to
\* its fetch
handleSend ==
    IF Trim(bcInput) = <<>> \/ bcLoading
    THEN UNCHANGED vars
    ELSE /\ Len(bcMessages) < MaxChatMessages
         /\ bcInput' = <<>>
         /\ bcMessages' = Append(bcMessages,
                                 [role |-> "user", content |-> Trim(bcInput)])
         /\ bcLoading' = TRUE
         /\ bcReqs' = Append(bcReqs, bcInput)
         /\ UNCHANGED notChat

\* handleSend after response.json(): the reply is appended, finally
\* setLoading(false)
ChatResolve(i) ==
    /\ i \in 1..Len(bcReqs)
    /\ bcMessages' = Append(bcMessages, Reply)
    /\ bcLoading' = FALSE
    /\ bcReqs' = RemoveAt(bcReqs, i)
    /\ UNCHANGED bcInput
    /\ UNCHANGED notChat

\* handleSend after a failed fetch or a body that is no JSON: the
\* connection-error text is appended, finally setLoading(false)
ChatReject(i) ==
    /\ i \in 1..Len(bcReqs)
    /\ bcMessages' = Append(bcMessages, ConnectionError)
    /\ bcLoading' = FALSE
    /\ bcReqs' = RemoveAt(bcReqs, i)
    /\ UNCHANGED bcInput
    /\ UNCHANGED notChat

\* after mount: the effect on [initialMessage] has set the greeting
InitChat ==
    /\ bcMessages = <<Greeting>>
    /\ bcInput = <<>>
    /\ bcLoading = FALSE
    /\ bcReqs = <<>>

NextChat ==
    \/ \E text \in ChatTexts : SetInput(text)
    \/ handleSend
    \/ \E i \in 1..MaxChatMessages : ChatResolve(i)
    \/ \E i \in 1..MaxChatMessages : ChatReject(i)

\* every component as it is mounted
InitComponents ==
    /\ InitChart /\ InitDiscovery /\ InitSearchBar /\ InitCurrency
    /\ InitModal /\ InitPortfolios /\ InitApp /\ InitChat

Init == InitComponents /\ observed = None

SpecChart == Init /\ [][NextChart]_vars

SpecDiscovery == Init /\ [][NextDiscovery]_vars

SpecSearchBar == Init /\ [][NextSearchBar]_vars

SpecCurrency == Init /\ [][NextCurrency]_vars

SpecModal == Init /\ [][NextModal]_vars

SpecPortfolios == Init /\ [][NextPortfolios]_vars

SpecApp == Init /\ [][NextApp]_vars

SpecChat == Init /\ [][NextChat]_vars

\* ---- the loading flags ----
\* The components share no state, so a behaviour of SpecLoading follows
\* one of them: the one named by observed.
Components == {"App", "PriceChart", "PortfolioView", "DiscoveryPanel"}

InitLoading == InitComponents /\ cuCurrency = "USD" /\ observed \in Components

\* the calls of analyzePortfolio and fetchPortfolios and their
\* continuations
NextAnalyze ==
    \/ \E r \in BagToSet(pvReqs) : ListHandle(r)
    \/ \E r \in BagToSet(pvReqs) : ListResolve(r)
    \/ \E r \in BagToSet(pvReqs) : ListReject(r)
    \/ \E id \in SeqToSet(PortfolioIds) : SetSelectedPortfolio(id)
    \/ Refresh
    \/ \E r \in BagToSet(pvReqs) : AnalyzeResolve(r)
    \/ \E r \in BagToSet(pvReqs) : AnalyzeFail(r)
    \/ \E r \in BagToSet(pvReqs) : VerdictResolve(r)
    \/ \E r \in BagToSet(pvReqs) : VerdictReject(r)
    \/ \E id \in SeqToSet(PortfolioIds) : AddHolding(id)
    \/ \E r \in BagToSet(pvReqs) : AddHoldingResolve(r)
    \/ \E r \in BagToSet(pvReqs) : AddHoldingReject(r)

\* the continuations of fetchAll
NextFetchAll ==
    \/ \E e \in SeqToSet(Endpoints) : EndpointFulfil(e)
    \/ \E e \in SeqToSet(Endpoints) : FetchAllResolve(e)
    \/ \E e \in SeqToSet(Endpoints) : FetchAllReject(e)

NextLoading ==
    \/ observed = "App" /\ NextApp
    \/ observed = "PriceChart" /\ NextChart
    \/ observed = "PortfolioView" /\ NextAnalyze
    \/ observed = "DiscoveryPanel" /\ NextFetchAll

\* a request of the observed component settles
SearchSettles ==
    /\ observed = "App"
    /\ \E i \in 1..MaxAnalysisRequests :
          \/ AppSearchOk(i)
          \/ \E body \in ErrorBodies : AppSearchNotOk(i, body)
          \/ AppSearchReject(i)

HistorySettles ==
    /\ observed = "PriceChart"
    /\ \E i \in 1..MaxHistoryRequests : HistoryResolve(i) \/ HistoryReject(i)

AnalyzeSettles ==
    /\ observed = "PortfolioView"
    /\ \E r \in BagToSet(pvReqs) : AnalyzeResolve(r) \/ AnalyzeFail(r)

FetchAllSettles ==
    /\ observed = "DiscoveryPanel"
    /\ \E e \in SeqToSet(Endpoints) :
          EndpointFulfil(e) \/ FetchAllResolve(e) \/ FetchAllReject(e)

\* every issued request eventually settles
RequestsSettle ==
    /\ WF_vars(SearchSettles)
    /\ WF_vars(HistorySettles)
    /\ WF_vars(AnalyzeSettles)
    /\ WF_vars(FetchAllSettles)

SpecLoading == InitLoading /\ [][NextLoading]_vars /\ RequestsSettle

(***************************************************************************)
(* Claims about PriceChart                                                 *)
(***************************************************************************)
AllHistorySettledOk == \A i \in 1..Len(pcReqs) : pcReqs[i].status = "ok"

\* C1: once every history request has settled successfully, the displayed
\* series (and, for a series of more than one point, the change stats) are
\* the ones returned for the currently selected ticker and period, also
\* when an older request resolved after a newer one.
C1_StaleResponseNotApplied ==
    (Len(pcReqs) >= 2 /\ AllHistorySettledOk) =>
        LET hist == History(pcTicker, PERIODS[pcPeriod].id) IN
            /\ pcData = hist
            /\ Len(hist) > 1 => pcStats = StatsOf(hist)

\* C2: a step that changes the selected period issues exactly one request,
\* carrying the new period's id and interval, and a step in which a request
\* succeeds replaces the displayed series by that request's response.
C2_PeriodSwitchFetchesOnce ==
    [][ /\ pcPeriod' # pcPeriod =>
            /\ Len(pcReqs') = Len(pcReqs) + 1
            /\ SubSeq(pcReqs', 1, Len(pcReqs)) = pcReqs
            /\ Last(pcReqs') = [ticker |-> pcTicker',
                                period |-> PERIODS[pcPeriod'].id,
                                interval |-> PERIODS[pcPeriod'].interval,
                                status |-> "pending"]
        /\ pcPeriod' = pcPeriod /\ pcTicker' = pcTicker =>
            Len(pcReqs') = Len(pcReqs)
        /\ \A i \in 1..Len(pcReqs) :
            (pcReqs[i].status = "pending" /\ pcReqs'[i].status = "ok") =>
                pcData' = History(pcReqs[i].ticker, pcReqs[i].period)
      ]_vars

\* a request issued by a period switch has succeeded and its series is shown
C2_Witness ==
    \E i \in 2..Len(pcReqs) :
        /\ pcReqs[i].period # pcReqs[i - 1].period
        /\ pcReqs[i].status = "ok"
        /\ pcData = History(pcReqs[i].ticker, pcReqs[i].period)
        /\ pcData # History(pcReqs[i - 1].ticker, pcReqs[i - 1].period)

(***************************************************************************)
(* Claims about DiscoveryPanel                                             *)
(***************************************************************************)
\* an addSearchedEtf call finishes in this step
EtfRequestSettles == Len(dpEtfReqs') < Len(dpEtfReqs)

\* C4: while selectedEtfs holds 3 entries, no attempt to select a further
\* ETF changes it: a finishing addSearchedEtf leaves the list as it is, and
\* any other step leaves it as it is, empties it or removes one entry.
C4_FourthSelectionRejected ==
    [][ Len(dpSelectedEtfs) = 3 =>
          IF EtfRequestSettles
          THEN dpSelectedEtfs' = dpSelectedEtfs
          ELSE \/ dpSelectedEtfs' = dpSelectedEtfs
               \/ dpSelectedEtfs' = <<>>
               \/ \E k \in 1..3 : dpSelectedEtfs' = RemoveAt(dpSelectedEtfs, k)
      ]_vars

\* C5: selectedEtfs never holds more than 3 entries.
C5_AtMostThreeSelected == Len(dpSelectedEtfs) <= 3

\* three entries are selected, one of them added by addSearchedEtf, and a
\* further addSearchedEtf call is in flight
C5_Witness ==
    /\ Len(dpSelectedEtfs) = 3
    /\ "X1" \in SelectedTickers(dpSelectedEtfs)
    /\ Len(dpEtfReqs) > 0

\* C6 as stated: with 1 to 3 ETFs selected the compare button is enabled.
C6_CompareEnabledFromOne ==
    (EtfTabShown /\ Len(dpSelectedEtfs) \in 1..3) => ~CompareDisabled

\* C6 amended: with 2 to 3 ETFs selected the compare button is enabled, and
\* while comparison is off activating it turns isComparing on.
C6_CompareEnabledFromTwo ==
    (EtfTabShown /\ Len(dpSelectedEtfs) \in 2..3) =>
        /\ ~CompareDisabled
        /\ ~dpIsComparing => ENABLED (ToggleCompare /\ dpIsComparing' = TRUE)

\* exactly two ETFs are selected on the ETF tab and comparison is off
C6_Witness ==
    EtfTabShown /\ Len(dpSelectedEtfs) = 2 /\ ~dpIsComparing

\* C8: a handleSearch call with an input shorter than 2 characters issues
\* no GET /api/search request and empties searchResults; every request in
\* flight carries a query of at least 2 characters.
C8_ShortQueryNoSearch ==
    [][ /\ (dpSearchQuery' # dpSearchQuery /\ Len(dpSearchQuery') < 2) =>
            /\ dpSearchReqs' = dpSearchReqs
            /\ dpSearchResults' = <<>>
        /\ \A i \in 1..Len(dpSearchReqs') : Len(dpSearchReqs'[i]) >= 2
      ]_vars

\* a one-character input is in the box, no request is in flight and the
\* results are empty, while ETFs found by an earlier search were selected
C8_Witness ==
    /\ Len(dpSearchQuery) = 1
    /\ dpSearchReqs = <<>>
    /\ dpSearchResults = <<>>
    /\ "X1" \in SelectedTickers(dpSelectedEtfs)

(***************************************************************************)
(* Claims about SearchBar                                                  *)
(***************************************************************************)
\* C7: no step sends a request to /api/search/suggestions carrying a query
\* while the input (as it is after the step) has fewer than 2 characters;
\* this is the case of the debounce timer that was armed by a longer input.
\* (The request without a query, which fetches the default categories, is
\* sent on purpose for an empty input and is left out here.)
C7_NoRequestBelowTwoChars ==
    [][ (Len(sbReqs') > Len(sbReqs) /\ Last(sbReqs').q # None) =>
            Len(sbQuery') >= 2 ]_vars

(***************************************************************************)
(* Claims about the currency toggle                                        *)
(***************************************************************************)
\* the factor the toggle is to apply to a USD amount
ToggleFactor == IF cuCurrency = "EUR" THEN cuExchangeRate ELSE Dec(1, 0)

\* the number a formatter has to show for a USD amount: the amount times
\* the toggle factor, in the unit and with the fraction digits it shows
ExpectedNumber(amount, shown, digits) ==
    LET k == CASE shown.unit = "T" -> 12
               [] shown.unit = "B" -> 9
               [] shown.unit = "M" -> 6
               [] OTHER -> 0
    IN  RoundTo(DivPow10(Mul(amount, ToggleFactor), k), digits)

\* the three renderings of the amount show what the toggle is to produce
ShownAsExpected ==
    /\ formatPrice(cuAmount, None).value =
          ExpectedNumber(cuAmount, formatPrice(cuAmount, None), 2)
    /\ formatBigNumber(cuAmount).value =
          ExpectedNumber(cuAmount, formatBigNumber(cuAmount), 2)
    /\ ~Falsy(cuAmount) =>
          FundVolumeTile(cuAmount).value =
             ExpectedNumber(cuAmount, FundVolumeTile(cuAmount),
                 IF FundVolumeTile(cuAmount).unit = "" THEN 3 ELSE 2)

\* C10: after a toggle from USD to EUR every rendered monetary value is
\* the USD amount times exchangeRate, and after a toggle back it is the USD
\* amount, for the values rendered by formatPrice, by formatBigNumber and
\* by ETFComparison.formatCurrency.
C10_ToggleScalesEveryValue ==
    (cuAmount # Missing /\ cuToggledFrom \in Currencies
     /\ cuCurrency \in Currencies) => ShownAsExpected

\* C3: every onAdd call of AddHoldingModal.handleAdd carries a ticker that
\* is not blank (neither empty nor only whitespace) and a share count that
\* is a number.
C3_OnAddNeverBlank ==
    mdOnAdd # NoCall =>
        /\ Trim(mdOnAdd.ticker) # <<>>
        /\ IsNumber(mdOnAdd.shares)

\* C9: once the Delete the user confirmed has been carried out by the API
\* and no request is in flight any more, the deleted id is not in the
\* displayed list, no portfolio is selected, and analysis and
\* portfolioVerdict are null.
C9_DeleteClearsView ==
    (pvDeleted # None /\ ~pvServer[pvDeleted].present /\ pvReqs = EmptyBag)
    => /\ ~Found(pvDeleted, pvPortfolios)
       /\ pvSelected = None
       /\ pvAnalysis = None
       /\ pvVerdict = None

\* C11: with the stored exchangeRate, converting a number from USD while
\* EUR is active and converting the result from EUR while USD is active
\* gives the number back, and convert(x, c) is x when c is the active
\* currency.
C11_ConvertRoundTrips ==
    IsNumber(cuAmount) =>
        /\ convertAs("USD", convertAs("EUR", cuAmount, "USD"), "EUR") = cuAmount
        /\ \A c \in Currencies : convertAs(c, cuAmount, c) = cuAmount

\* a rate fetched from the API converts a non-zero amount to another number
C11_Witness ==
    /\ IsNumber(cuAmount)
    /\ cuExchangeRate # InitialRate
    /\ cuCurrency = "EUR"
    /\ convert(cuAmount, "USD") # cuAmount
    /\ convertAs("USD", convert(cuAmount, "USD"), "EUR") = cuAmount

\* a step in which the continuation of a completed mutation request runs
MutationCompletes ==
    \E r \in BagToSet(pvReqs) :
        \/ CreateResolve(r)
        \/ DeleteResolve(r)
        \/ AddHoldingResolve(r)
        \/ RemoveHoldingResolve(r)

\* C12: when the request of createPortfolio, deletePortfolio, addHolding or
\* removeHolding completes, the hook issues GET /api/portfolios and does
\* not edit the portfolios list itself.
C12_MutationsRefetch ==
    [][ MutationCompletes =>
            /\ pvPortfolios' = pvPortfolios
            /\ CopiesIn(Req("list", "", <<>>), pvReqs') =
                   CopiesIn(Req("list", "", <<>>), pvReqs) + 1 ]_vars

\* none of the 11 list states has been set
NoListSet == dpEtfs = <<>> /\ \A x \in ListEndpoints : dpLists[x] = <<>>

\* each of the 11 list states holds the response of its endpoint
AllListsSet ==
    dpEtfs = Response("etfs") /\ \A x \in ListEndpoints : dpLists[x] = Response(x)

\* C13: fetchAll is all-or-nothing.  The step in which loading becomes
\* false sets all 11 lists from their responses if all 11 requests were
\* fulfilled, and leaves all 11 lists as they were otherwise.
C13_FetchAllAllOrNothing ==
    [][ (dpLoading /\ ~dpLoading') =>
            IF dpFulfilled' = SeqToSet(Endpoints)
            THEN AllListsSet'
            ELSE dpEtfs' = dpEtfs /\ dpLists' = dpLists /\ NoListSet' ]_vars

\* fetchAll has ended by a rejection
C13_Witness == ~dpLoading /\ dpFulfilled # SeqToSet(Endpoints) /\ NoListSet

\* the error message the handling of a response that is not OK is to give
ClaimedMessage(body) ==
    IF body.kind = "json"
    THEN IF body.detail # None THEN body.detail ELSE "Failed to fetch analysis"
    ELSE "Server Error: <status> <statusText>"

\* C14: when handleSearch gets a response that is not OK, error becomes the
\* detail of a JSON body (or 'Failed to fetch analysis' without a detail)
\* and the generic 'Server Error' string for a body that is no JSON;
\* analysis is null and loading is false afterwards.
C14_ErrorFromResponse ==
    [][ \A i \in 1..MaxAnalysisRequests, body \in ErrorBodies :
            AppSearchNotOk(i, body) =>
                /\ apError' = ClaimedMessage(body)
                /\ apAnalysis' = None
                /\ ~apLoading' ]_vars

\* C18: a resolving handleSearch request sets analysis to its own payload,
\* whether or not a later handleSearch was started, so the response that
\* arrives last wins.
C18_StaleAnalysisOverwrites ==
    [][ \A i \in 1..MaxAnalysisRequests :
            AppSearchOk(i) => apAnalysis' = apReqs[i] ]_vars

\* B was requested last, both responses have arrived, A's payload is held
C18_Witness ==
    /\ apReqs = <<>>
    /\ apLastTicker = "MSFT"
    /\ apAnalysis = "AAPL"
    /\ ~apLoading


\* the chart draws the series when it is not loading and data.length > 0
SeriesDisplayed == ~pcLoading /\ Len(pcData) > 0

\* C15: whenever a series is displayed with loading false, the displayed
\* change percent is (last - first) / first * 100 over that displayed
\* series, also after a switch to a series of fewer than 2 points or a
\* failed fetch.
C15_ChangeMatchesDisplayedSeries ==
    SeriesDisplayed => pcStats.changePct = StatsOf(pcData).changePct


\* C16: activeTab and currency start with the last value assigned before
\* the page was closed, and with "analyze" and "USD" when nothing was
\* stored.
C16_LastWriteWins ==
    [][ /\ Reload => (apActiveTab' = apActiveTab /\ cuCurrency' = cuCurrency)
        /\ StartupTab(None) = "analyze"
        /\ StartupCurrency(None) = "USD" ]_vars

\* after a reload (a stored analysis is shown and no search was made
\* since) the tab and the currency are not the defaults
C16_Witness ==
    /\ apAnalysis # None /\ apLastTicker = None
    /\ apActiveTab = "portfolio" /\ cuCurrency = "EUR"

\* C17: the currency of CurrencyProvider is USD or EUR in every reachable
\* state, whatever preferred_currency held at startup.
C17_CurrencyIsKnownSymbol == cuCurrency \in Currencies


\* a create or delete request settles as a failure: the fetch rejects or
\* the API answers with a status that is not OK
CreateOrDeleteFails ==
    \E r \in BagToSet(pvReqs) :
        CreateNotOk(r) \/ CreateReject(r) \/ DeleteNotOk(r) \/ DeleteReject(r)

\* C19: a create-portfolio or delete-portfolio request that fails leaves
\* the portfolios list of the client as it was.
C19_FailedMutationKeepsList ==
    [][CreateOrDeleteFails => pvPortfolios' = pvPortfolios]_vars


\* C20: if every issued request settles, the loading flag of handleSearch,
\* of PriceChart, of analyzePortfolio and of fetchAll becomes false again
\* whenever it is true, whether the request resolved or rejected.
C20_LoadingEventuallyFalse ==
    /\ (observed = "App" /\ apLoading) ~> ~apLoading
    /\ (observed = "PriceChart" /\ pcLoading) ~> ~pcLoading
    /\ (observed = "PortfolioView" /\ pvLoading) ~> ~pvLoading
    /\ (observed = "DiscoveryPanel" /\ dpLoading) ~> ~dpLoading

\* a search failed and its loading flag is false again
C20_Witness ==
    /\ observed = "App" /\ apError = "Failed to fetch"
    /\ apReqs = <<>> /\ ~apLoading

\* the step in which the armed timer fires
TimerFires == sbTimer # None /\ sbTimer' = None

\* C21: a change of the query to a text whose trimmed length is at least 2
\* issues no request and re-arms the one timer; when the timer fires after
\* the last such change, one request carrying the trimmed query is issued
\* and no timer is left armed.
C21_DebounceSendsLastQuery ==
    [][ /\ \A text \in QueryTexts :
             (SetQuery(text) /\ Len(Trim(text)) > 1)
                 => (sbReqs' = sbReqs /\ sbTimer' = Trim(text))
        /\ (TimerFires /\ Len(Trim(sbQuery)) > 1)
                 => /\ Len(sbReqs') = Len(sbReqs) + 1
                    /\ SubSeq(sbReqs', 1, Len(sbReqs)) = sbReqs
                    /\ sbReqs'[Len(sbReqs')].q = Trim(sbQuery) ]_vars

\* the timer fired after the query became "abc": its request is in flight
C21_Witness ==
    /\ sbQuery = <<"a", "b", "c">>
    /\ sbTimer = None
    /\ \E i \in 1..Len(sbReqs) :
          sbReqs[i].q # None /\ sbReqs[i].q = <<"a", "b", "c">>

\* C22: the portfolios list of usePortfolios never holds two entries with
\* the same id, whatever the order of the mutations and of their responses.
C22_NoDuplicateIds ==
    \A i, j \in 1..Len(pvPortfolios) :
        i # j => pvPortfolios[i].id # pvPortfolios[j].id

\* C23: an analysis shown while no analyze request is outstanding is the
\* analysis of the selected portfolio, also after the selection was
\* switched during an earlier request and when the new request fails.
C23_AnalysisOfSelected ==
    (/\ Found(pvSelected, pvPortfolios)
     /\ pvAnalysis # None
     /\ InFlight("analyze") = {}) => pvAnalysis = pvSelected

\* C24: in every state of App where loading is false, error and analysis
\* are not both non-null, for any sequence and overlap of handleSearch
\* calls.
C24_ErrorOrAnalysis == ~apLoading => (apError = None \/ apAnalysis = None)

\* C25: loading is true in every state in which a request started by
\* handleSearch has not settled.
C25_LoadingWhileOutstanding == apReqs # <<>> => apLoading

\* C26: the selectedPortfolioId of AddHoldingModal is at every moment the
\* id of a portfolio of the portfolios list, or empty when the list is
\* empty.
C26_SelectedPortfolioExists ==
    IF mdPortfolios = <<>>
    THEN mdSelectedPortfolioId = ""
    ELSE mdSelectedPortfolioId \in SeqToSet(mdPortfolios)

\* ---- the prefilled price ----
\* AddHoldingModal under CurrencyProvider while the user leaves the price
\* field as the effect filled it
NextPrefill ==
    \/ OpenModal
    \/ onClose
    \/ \E initialTicker \in InitialTickers, initialPrice \in InitialPrices,
          portfolios \in PortfolioLists :
          PropsChange(initialTicker, initialPrice, portfolios)
    \/ \E id \in {"p1", "p2"} : SetSelectedPortfolioId(id)
    \/ handleAdd
    \/ \E c \in Currencies : setCurrency(c)
    \/ RateTick
    \/ \E rate \in RateResponses : RateResolve(rate)
    \/ RateReject

SpecPrefill == Init /\ [][NextPrefill]_vars

\* the text of the price field for a USD price under the current currency
\* and rate
DisplayedPrice(usd) == RoundTo(convertAs(cuCurrency, usd, "USD"), 2)

\* C27: when the modal is prefilled from a USD price p and confirmed with
\* the price field unedited, the buyPrice passed to onAdd is p in USD up to
\* the 2-decimal rounding of the displayed value (the two are displayed
\* alike), in either currency and also after a rate refresh or a currency
\* toggle while the modal is open.
C27_PrefilledPriceInUSD ==
    [][ (handleAdd /\ ~Falsy(mdInitialPrice)) =>
            DisplayedPrice(mdOnAdd'.buyPrice) = DisplayedPrice(mdInitialPrice)
      ]_vars

\* C28: whenever comparison mode is active, at least 2 ETFs are selected.
C28_ComparingNeedsTwo == dpIsComparing => Len(dpSelectedEtfs) >= 2

\* after the greeting the messages alternate: a user message, then the
\* one oracle message that answers it; the last user message is unanswered
\* exactly while its request is outstanding
ChatAlternates ==
    /\ \A k \in 1..Len(bcMessages) :
          bcMessages[k].role = IF k % 2 = 1 THEN "oracle" ELSE "user"
    /\ Len(bcReqs) = IF Len(bcMessages) % 2 = 0 THEN 1 ELSE 0

\* C29: every user message appended by handleSend is followed by exactly
\* one oracle message before any further user message is appended, and
\* handleSend does nothing while a request is outstanding or the input is
\* blank.
C29_OneReplyPerMessage ==
    /\ []ChatAlternates
    /\ [][ (handleSend /\ (bcReqs # <<>> \/ Trim(bcInput) = <<>>))
              => UNCHANGED bcVars ]_vars

\* two questions were sent; the first was answered by the backend and the
\* second by the connection-error text
C29_Witness ==
    /\ Len(bcMessages) = 5
    /\ bcMessages[3] = Reply
    /\ bcMessages[5] = ConnectionError

\* a rate request fails, or its response carries no truthy rate
RefreshWithoutRate ==
    \/ RateReject
    \/ \E rate \in RateResponses : Falsy(rate) /\ RateResolve(rate)

\* C30: the exchangeRate is never 0, null or undefined, and a refresh
\* whose request fails or whose response carries no truthy rate leaves it
\* unchanged.
C30_RateNeverFalsy ==
    /\ [](~Falsy(cuExchangeRate))
    /\ [][RefreshWithoutRate => cuExchangeRate' = cuExchangeRate]_vars

\* the request made at mount has settled without a rate: the provider
\* still holds 0.92
C30_Witness == cuRateReqs = 0 /\ cuExchangeRate = InitialRate

=============================================================================
